---- MODULE Spec2Model ----
(***************************************************************************)
(* State-machine model of the BFT FinalityManager of the lisk-sdk chain    *)
(* module (framework/src/modules/chain/bft/finality_manager.js), of the    *)
(* BFT class around it (forkChoice, isBFTProtocolCompliant, deleteBlocks)  *)
(* and of the P2P coordinator of lisk-p2p with its PeerBook.               *)
(*                                                                         *)
(* Every public method and every event handler is one action; the private *)
(* helpers are operators over a record that holds the fields of the object.*)
(***************************************************************************)
EXTENDS Integers, Sequences, FiniteSets, TLC

(***************************************************************************)
(* Bounds of the exploration.                                              *)
(***************************************************************************)
MaxActiveDelegates == 2
MaxHeight == 4
MaxStartHeight == 2
MaxInitFinalized == 2
MaxPrevoted == 0
MaxMinActive == 1
NumKeys == 2
MaxRoundDelegates == 6
MaxRounds == 4
MaxBlockId == 2
MaxForkHeight == 2
MaxForkPrevoted == 1
MaxDelay == 1
MaxCheckedHeight == 8
MaxPeers == 2
MaxSharedState == 1
MaxSelected == 3
MaxPayloadDivisor == 2
MaxInfoSizeDivisor == 4
MaxEntryParts == 2
MaxWindowHeight == 5
MaxWindowMinActive == 3
MaxWalkHeight == 3

BFT_ROUND_THRESHOLD == 3

\* public keys of the forging delegates
Delegates == 1..NumKeys

VARIABLES
    activeDelegates,         \* this.activeDelegates
    headers,                 \* this.headers.items
    state,                   \* this.state
    preVotes,                \* this.preVotes
    preCommits,              \* this.preCommits
    chainMaxHeightPrevoted,  \* this.chainMaxHeightPrevoted
    finalizedHeight,         \* this.finalizedHeight
    emitted,                 \* EVENT_BFT_FINALIZED_HEIGHT_CHANGED payloads of the last call
    log,                     \* order of the steps of the last call
    lastCall,                \* the last call: method, argument, outcome
    newPeers,                \* PeerBook: the new table, peerId -> peerInfo
    triedPeers,              \* PeerBook: the tried table, peerId -> entry
    bannedPeers,             \* P2P._bannedPeers: the banned IP addresses
    sanitizedPeerLists,      \* P2P._sanitizedPeerLists: the configured peers
    peerPool,                \* P2P._peerPool: peerId -> internalState of the connected peers
    hasConnected,            \* P2P._hasConnected
    pendingUnbans,           \* the peerIds whose ban the pool has still to lift
    isActive,                \* P2P._isActive
    populatorIntervalId,     \* P2P._populatorIntervalId, 0 when undefined
    timers,                  \* the interval timers that are set and not cleared
    pendingStarts,           \* the start() calls that wait for the server
    pidFile,                 \* controller.pid: the pid it holds, 0 when absent
    running,                 \* the pids of the running processes
    pc,                      \* Controller: where load() of each instance is
    pidRead                  \* Controller: the pid _validatePidFile has read

\* the fields of the FinalityManager and the outcome of its last call
fmVars == <<activeDelegates, headers, state, preVotes, preCommits,
            chainMaxHeightPrevoted, finalizedHeight, emitted, log>>

\* the fields of the P2P coordinator and of its PeerBook
\* the fields of the P2P coordinator that start() and stop() work on
lifeVars == <<isActive, populatorIntervalId, timers, pendingStarts>>

p2pVars == <<newPeers, triedPeers, bannedPeers, sanitizedPeerLists, peerPool,
             hasConnected, pendingUnbans, lifeVars>>

\* the pid file, the processes and the Controller instances of one label
ctlVars == <<pidFile, running, pc, pidRead>>

vars == <<fmVars, lastCall, p2pVars, ctlVars>>

----------------------------------------------------------------------------
(* Small helpers *)

SetMax(S) == CHOOSE x \in S : \A y \in S : y <= x

Max2(a, b) == IF a >= b THEN a ELSE b

\* obj[k] = v on a JS object used as a map
Put(f, k, v) == [x \in (DOMAIN f) \cup {k} |-> IF x = k THEN v ELSE f[x]]

\* (obj[k] || 0)
GetOr0(f, k) == IF k \in DOMAIN f THEN f[k] ELSE 0

EmptyMap == <<>>

\* a coordinator that is configured with no peer and has met none
NoPeerLists == [whitelisted |-> {}, fixedPeers |-> {}, previousPeers |-> {},
                blacklistedPeers |-> {}]

\* no Controller instance, no pid file
ControllerIdle ==
    /\ pidFile = 0
    /\ running = {}
    /\ pc = EmptyMap
    /\ pidRead = EmptyMap

P2PIdle ==
    /\ newPeers = EmptyMap
    /\ triedPeers = EmptyMap
    /\ bannedPeers = {}
    /\ sanitizedPeerLists = NoPeerLists
    /\ peerPool = EmptyMap
    /\ hasConnected = FALSE
    /\ pendingUnbans = {}
    /\ isActive = FALSE
    /\ populatorIntervalId = 0
    /\ timers = {}
    /\ pendingStarts = 0

NoHeader == [height |-> 0, delegatePublicKey |-> 0, maxHeightPreviouslyForged |-> 0,
             maxHeightPrevoted |-> 0, delegateMinHeightActive |-> 0]

----------------------------------------------------------------------------
(* Constants the constructor derives from activeDelegates *)

preVoteThreshold == (activeDelegates * 2 + 2) \div 3

preCommitThreshold == (activeDelegates * 2 + 2) \div 3

processingThreshold == activeDelegates * BFT_ROUND_THRESHOLD - 1

maxHeaders == activeDelegates * 5

----------------------------------------------------------------------------
(* HeadersList *)

HeadersAdd(items, h) ==
    LET appended == Append(items, h)
    IN  IF Len(appended) > maxHeaders THEN Tail(appended) ELSE appended

HeadersRemove(items, aboveHeight) ==
    SelectSeq(items, LAMBDA x : x.height <= aboveHeight)

HeadersGet(items, height) ==
    IF \E i \in 1..Len(items) : items[i].height = height
    THEN items[CHOOSE i \in 1..Len(items) : items[i].height = height]
    ELSE NoHeader

HeadersTop(items, n) ==
    IF Len(items) <= n THEN items
    ELSE SubSeq(items, Len(items) - n + 1, Len(items))

minHeight(items) == IF Len(items) = 0 THEN 0 ELSE items[1].height

maxHeight(items) == IF Len(items) = 0 THEN 0 ELSE items[Len(items)].height

----------------------------------------------------------------------------
(* validateBlockHeader *)

validateBlockHeader(h) ==
    /\ h.height >= 1
    /\ h.maxHeightPreviouslyForged >= 0
    /\ h.maxHeightPrevoted >= 0
    /\ h.delegateMinHeightActive >= 1

----------------------------------------------------------------------------
(* FinalityManager: private helpers.  fm is the record of the fields      *)
(* [headers, state, preVotes, preCommits, chainMaxHeightPrevoted,          *)
(*  finalizedHeight, emitted, log].                                        *)

\* the bug of going on from the header found without moving the needle
WalkIterationStaying(items, header, searchTillHeight, needleHeight, currentBlockHeader) ==
    IF needleHeight >= searchTillHeight
    THEN IF needleHeight = currentBlockHeader.maxHeightPreviouslyForged
         THEN LET previousBlockHeader == HeadersGet(items, needleHeight)
              IN  IF previousBlockHeader = NoHeader
                  THEN [result |-> 0, needleHeight |-> needleHeight,
                        currentBlockHeader |-> currentBlockHeader]
                  ELSE [result |-> -1, needleHeight |-> needleHeight,
                        currentBlockHeader |-> previousBlockHeader]
         ELSE [result |-> -1, needleHeight |-> needleHeight - 1,
               currentBlockHeader |-> currentBlockHeader]
    ELSE [result |-> Max2(needleHeight + 1, searchTillHeight),
          needleHeight |-> needleHeight,
          currentBlockHeader |-> currentBlockHeader]

\* one test of the while condition of _getMinValidHeightToPreCommit and the
\* iteration that follows it: the value returned, or -1 with the needle and
\* the current header of the next iteration
WalkIteration(items, header, searchTillHeight, needleHeight, currentBlockHeader) ==
    IF needleHeight >= searchTillHeight
    THEN IF needleHeight = currentBlockHeader.maxHeightPreviouslyForged
         THEN LET previousBlockHeader == HeadersGet(items, needleHeight)
              IN  IF previousBlockHeader = NoHeader
                  THEN [result |-> 0, needleHeight |-> needleHeight,
                        currentBlockHeader |-> currentBlockHeader]
                  ELSE IF \/ previousBlockHeader.delegatePublicKey
                                 # header.delegatePublicKey
                          \/ previousBlockHeader.maxHeightPreviouslyForged
                                 >= needleHeight
                       THEN [result |-> needleHeight + 1,
                             needleHeight |-> needleHeight,
                             currentBlockHeader |-> currentBlockHeader]
                       ELSE [result |-> -1,
                             needleHeight |->
                                 previousBlockHeader.maxHeightPreviouslyForged,
                             currentBlockHeader |-> previousBlockHeader]
         ELSE [result |-> -1, needleHeight |-> needleHeight - 1,
               currentBlockHeader |-> currentBlockHeader]
    ELSE [result |-> Max2(needleHeight + 1, searchTillHeight),
          needleHeight |-> needleHeight,
          currentBlockHeader |-> currentBlockHeader]

RECURSIVE PreCommitWalk(_, _, _, _, _)
PreCommitWalk(items, header, searchTillHeight, needleHeight, currentBlockHeader) ==
    IF needleHeight >= searchTillHeight
    THEN IF needleHeight = currentBlockHeader.maxHeightPreviouslyForged
         THEN LET previousBlockHeader == HeadersGet(items, needleHeight)
              IN  IF previousBlockHeader = NoHeader
                  THEN 0
                  ELSE IF \/ previousBlockHeader.delegatePublicKey # header.delegatePublicKey
                          \/ previousBlockHeader.maxHeightPreviouslyForged >= needleHeight
                       THEN needleHeight + 1
                       ELSE PreCommitWalk(items, header, searchTillHeight,
                                          previousBlockHeader.maxHeightPreviouslyForged,
                                          previousBlockHeader)
         ELSE PreCommitWalk(items, header, searchTillHeight,
                            needleHeight - 1, currentBlockHeader)
    ELSE Max2(needleHeight + 1, searchTillHeight)

getMinValidHeightToPreCommit(items, header) ==
    LET searchTillHeight == Max2(minHeight(items), header.height - processingThreshold)
        needleHeight == Max2(header.maxHeightPreviouslyForged,
                             header.height - processingThreshold)
    IN  PreCommitWalk(items, header, searchTillHeight, needleHeight, header)

NewDelegateState == [maxPreVoteHeight |-> 0, maxPreCommitHeight |-> 0]

\* the bug of pre-committing heights whatever their pre-votes
PreCommitHeightsOfAnyHeight(fm, header) ==
    LET delegateState == IF header.delegatePublicKey \in DOMAIN fm.state
                         THEN fm.state[header.delegatePublicKey]
                         ELSE NewDelegateState
        minValidHeightToPreCommit == getMinValidHeightToPreCommit(fm.headers, header)
        minPreCommitHeight == Max2(Max2(header.delegateMinHeightActive,
                                        minValidHeightToPreCommit),
                                   delegateState.maxPreCommitHeight + 1)
        maxPreCommitHeight == header.height - 1
    IN  minPreCommitHeight..maxPreCommitHeight

\* the bug of pre-committing heights the delegate has pre-committed before
PreCommitHeightsCommittingAgain(fm, header) ==
    LET minValidHeightToPreCommit == getMinValidHeightToPreCommit(fm.headers, header)
        minPreCommitHeight == Max2(header.delegateMinHeightActive,
                                   minValidHeightToPreCommit)
        maxPreCommitHeight == header.height - 1
    IN  {j \in minPreCommitHeight..maxPreCommitHeight :
            GetOr0(fm.preVotes, j) >= preVoteThreshold}

\* the heights the pre-commit loop of the header increments
PreCommitHeights(fm, header) ==
    LET delegateState == IF header.delegatePublicKey \in DOMAIN fm.state
                         THEN fm.state[header.delegatePublicKey]
                         ELSE NewDelegateState
        minValidHeightToPreCommit == getMinValidHeightToPreCommit(fm.headers, header)
        minPreCommitHeight == Max2(Max2(header.delegateMinHeightActive,
                                        minValidHeightToPreCommit),
                                   delegateState.maxPreCommitHeight + 1)
        maxPreCommitHeight == header.height - 1
    IN  {j \in minPreCommitHeight..maxPreCommitHeight :
            GetOr0(fm.preVotes, j) >= preVoteThreshold}

\* the bug of pre-voting every height the delegate has not voted for yet,
\* however far back
PreVoteHeightsOfAnyAge(fm, header) ==
    LET delegateState == IF header.delegatePublicKey \in DOMAIN fm.state
                         THEN fm.state[header.delegatePublicKey]
                         ELSE NewDelegateState
        minPreVoteHeight == Max2(Max2(header.delegateMinHeightActive,
                                      header.maxHeightPreviouslyForged + 1),
                                 delegateState.maxPreVoteHeight + 1)
    IN  minPreVoteHeight..header.height

\* the heights the pre-vote loop of the header increments
PreVoteHeights(fm, header) ==
    LET delegateState == IF header.delegatePublicKey \in DOMAIN fm.state
                         THEN fm.state[header.delegatePublicKey]
                         ELSE NewDelegateState
        minPreVoteHeight == Max2(Max2(header.delegateMinHeightActive,
                                      header.maxHeightPreviouslyForged + 1),
                                 Max2(delegateState.maxPreVoteHeight + 1,
                                      header.height - processingThreshold))
    IN  minPreVoteHeight..header.height

\* the bug of recording no pre-commit height when the header pre-commits
\* nothing, instead of keeping the delegate's last one
countPreVotesPreCommitsForgettingLast(fm, header) ==
         LET committed == PreCommitHeights(fm, header)
             voted == PreVoteHeights(fm, header)
             newState == [maxPreVoteHeight |-> header.height,
                          maxPreCommitHeight |->
                              IF committed = {} THEN 0 ELSE SetMax(committed)]
         IN  [fm EXCEPT
                !.preCommits = [j \in (DOMAIN fm.preCommits) \cup committed |->
                                   IF j \in committed
                                   THEN GetOr0(fm.preCommits, j) + 1
                                   ELSE fm.preCommits[j]],
                !.preVotes = [j \in (DOMAIN fm.preVotes) \cup voted |->
                                   IF j \in voted
                                   THEN GetOr0(fm.preVotes, j) + 1
                                   ELSE fm.preVotes[j]],
                !.state = Put(fm.state, header.delegatePublicKey, newState),
                !.log = Append(fm.log, "tally")]

\* the bug of adding the pre-votes of the header before its pre-commits are
\* evaluated
countPreVotesPreCommitsVotesFirst(fm, header) ==
         LET delegateState == IF header.delegatePublicKey \in DOMAIN fm.state
                              THEN fm.state[header.delegatePublicKey]
                              ELSE NewDelegateState
             voted == PreVoteHeights(fm, header)
             votes == [j \in (DOMAIN fm.preVotes) \cup voted |->
                          IF j \in voted
                          THEN GetOr0(fm.preVotes, j) + 1
                          ELSE fm.preVotes[j]]
             committed == PreCommitHeights([fm EXCEPT !.preVotes = votes], header)
             newState == [maxPreVoteHeight |-> header.height,
                          maxPreCommitHeight |->
                              IF committed = {} THEN delegateState.maxPreCommitHeight
                              ELSE SetMax(committed)]
         IN  [fm EXCEPT
                !.preCommits = [j \in (DOMAIN fm.preCommits) \cup committed |->
                                   IF j \in committed
                                   THEN GetOr0(fm.preCommits, j) + 1
                                   ELSE fm.preCommits[j]],
                !.preVotes = votes,
                !.state = Put(fm.state, header.delegatePublicKey, newState),
                !.log = Append(fm.log, "tally")]

\* updatePreVotesPreCommits past its first return: the two loops and the
\* update of the delegate's state
countPreVotesPreCommits(fm, header) ==
         LET delegateState == IF header.delegatePublicKey \in DOMAIN fm.state
                              THEN fm.state[header.delegatePublicKey]
                              ELSE NewDelegateState
             committed == PreCommitHeights(fm, header)
             voted == PreVoteHeights(fm, header)
             newState == [maxPreVoteHeight |-> header.height,
                          maxPreCommitHeight |->
                              IF committed = {} THEN delegateState.maxPreCommitHeight
                              ELSE SetMax(committed)]
         IN  [fm EXCEPT
                !.preCommits = [j \in (DOMAIN fm.preCommits) \cup committed |->
                                   IF j \in committed
                                   THEN GetOr0(fm.preCommits, j) + 1
                                   ELSE fm.preCommits[j]],
                !.preVotes = [j \in (DOMAIN fm.preVotes) \cup voted |->
                                   IF j \in voted
                                   THEN GetOr0(fm.preVotes, j) + 1
                                   ELSE fm.preVotes[j]],
                !.state = Put(fm.state, header.delegatePublicKey, newState),
                !.log = Append(fm.log, "tally")]

\* the bug of counting the votes of a delegate that forged at this height
\* or above before
updatePreVotesPreCommitsOfAnyHeader(fm, header) ==
    countPreVotesPreCommits(fm, header)

updatePreVotesPreCommits(fm, header) ==
    IF header.maxHeightPreviouslyForged >= header.height
    THEN fm
    ELSE countPreVotesPreCommits(fm, header)

SetMin(S) == CHOOSE x \in S : \A y \in S : x <= y

\* the bug of scanning the pre-committed heights in ascending order
updatePreVotedAndFinalizedHeightAscending(fm) ==
    IF Len(fm.headers) = 0
    THEN fm
    ELSE LET preVoted == {j \in DOMAIN fm.preVotes : fm.preVotes[j] >= preVoteThreshold}
             preCommitted == {j \in DOMAIN fm.preCommits :
                                 fm.preCommits[j] >= preCommitThreshold}
             newFinalizedHeight == IF preCommitted # {} THEN SetMin(preCommitted)
                                   ELSE fm.finalizedHeight
             changed == fm.finalizedHeight # newFinalizedHeight
         IN  [fm EXCEPT
                !.chainMaxHeightPrevoted = IF preVoted # {} THEN SetMax(preVoted)
                                           ELSE fm.chainMaxHeightPrevoted,
                !.finalizedHeight = newFinalizedHeight,
                !.emitted = IF changed THEN Append(fm.emitted, newFinalizedHeight)
                            ELSE fm.emitted,
                !.log = IF changed THEN Append(fm.log, "emit") ELSE fm.log]

updatePreVotedAndFinalizedHeight(fm) ==
    IF Len(fm.headers) = 0
    THEN fm
    ELSE LET preVoted == {j \in DOMAIN fm.preVotes : fm.preVotes[j] >= preVoteThreshold}
             preCommitted == {j \in DOMAIN fm.preCommits :
                                 fm.preCommits[j] >= preCommitThreshold}
             previouslyFinalizedHeight == fm.finalizedHeight
             newFinalizedHeight == IF preCommitted # {} THEN SetMax(preCommitted)
                                   ELSE fm.finalizedHeight
             changed == previouslyFinalizedHeight # newFinalizedHeight
         IN  [fm EXCEPT
                !.chainMaxHeightPrevoted = IF preVoted # {} THEN SetMax(preVoted)
                                           ELSE fm.chainMaxHeightPrevoted,
                !.finalizedHeight = newFinalizedHeight,
                !.emitted = IF changed THEN Append(fm.emitted, newFinalizedHeight)
                            ELSE fm.emitted,
                !.log = IF changed THEN Append(fm.log, "emit") ELSE fm.log]

\* the bug of deleting the highest keys and keeping the lowest maxHeaders
TrimOfHighest(f) ==
    LET kept == {k \in DOMAIN f : Cardinality({x \in DOMAIN f : x < k}) < maxHeaders}
    IN  [k \in kept |-> f[k]]

\* Object.keys(obj).slice(0, -1 * maxHeaders) are deleted: the highest
\* maxHeaders keys stay
Trim(f) ==
    LET kept == {k \in DOMAIN f : Cardinality({x \in DOMAIN f : x > k}) < maxHeaders}
    IN  [k \in kept |-> f[k]]

cleanup(fm) ==
    [fm EXCEPT !.preVotes = Trim(fm.preVotes),
               !.preCommits = Trim(fm.preCommits),
               !.log = Append(fm.log, "cleanup")]

\* recompute past its four resets: the replay of the stored headers in
\* ascending order, the update of the two heights and the cleanup
replayHeaders(fm) ==
    LET RECURSIVE Replay(_, _)
        Replay(acc, i) ==
            IF i > Len(fm.headers) THEN acc
            ELSE Replay(updatePreVotesPreCommits(acc, fm.headers[i]), i + 1)
    IN  cleanup(updatePreVotedAndFinalizedHeight(Replay(fm, 1)))

\* the bug of not resetting chainMaxHeightPrevoted
recomputeKeepingPrevoted(fm) ==
    replayHeaders([fm EXCEPT !.state = EmptyMap,
                             !.preVotes = EmptyMap,
                             !.preCommits = EmptyMap])

\* the bug of not resetting the delegates' state
recomputeKeepingState(fm) ==
    replayHeaders([fm EXCEPT !.chainMaxHeightPrevoted = 0,
                             !.preVotes = EmptyMap,
                             !.preCommits = EmptyMap])

recompute(fm) ==
    replayHeaders([fm EXCEPT !.state = EmptyMap,
                             !.chainMaxHeightPrevoted = 0,
                             !.preVotes = EmptyMap,
                             !.preCommits = EmptyMap])

findLastBlockForgedByDelegate(items, delegatePublicKey) ==
    LET top == HeadersTop(items, processingThreshold)
        own == {i \in 1..Len(top) : top[i].delegatePublicKey = delegatePublicKey}
    IN  IF own = {} THEN NoHeader ELSE top[SetMax(own)]

\* the bug of comparing the two headers without ordering them first
verifyAgainstLastBlockUnordered(fm, blockHeader) ==
    LET earlierBlock ==
            findLastBlockForgedByDelegate(fm.headers, blockHeader.delegatePublicKey)
        laterBlock == blockHeader
    IN  IF earlierBlock = NoHeader THEN "none"
        ELSE IF /\ earlierBlock.maxHeightPrevoted = laterBlock.maxHeightPrevoted
                /\ earlierBlock.height >= laterBlock.height
             THEN "BFTForkChoiceRuleError"
        ELSE IF earlierBlock.height > laterBlock.maxHeightPreviouslyForged
             THEN "BFTChainDisjointError"
        ELSE IF earlierBlock.maxHeightPrevoted > laterBlock.maxHeightPrevoted
             THEN "BFTLowerChainBranchError"
        ELSE "none"

\* verifyBlockHeaders past its first check: the comparison with the last
\* block of the same delegate
verifyAgainstLastBlock(fm, blockHeader) ==
    LET delegateLastBlock ==
            findLastBlockForgedByDelegate(fm.headers, blockHeader.delegatePublicKey)
        higherMaxHeightPreviouslyForgerd ==
            delegateLastBlock.maxHeightPreviouslyForged >
                blockHeader.maxHeightPreviouslyForged
        sameMaxHeightPreviouslyForgerd ==
            delegateLastBlock.maxHeightPreviouslyForged =
                blockHeader.maxHeightPreviouslyForged
        higherMaxHeightPrevoted ==
            delegateLastBlock.maxHeightPrevoted > blockHeader.maxHeightPrevoted
        sameMaxHeightPrevoted ==
            delegateLastBlock.maxHeightPrevoted = blockHeader.maxHeightPrevoted
        higherHeight == delegateLastBlock.height > blockHeader.height
        swap == \/ higherMaxHeightPreviouslyForgerd
                \/ (sameMaxHeightPreviouslyForgerd /\ higherMaxHeightPrevoted)
                \/ (sameMaxHeightPreviouslyForgerd /\ sameMaxHeightPrevoted
                        /\ higherHeight)
        earlierBlock == IF swap THEN blockHeader ELSE delegateLastBlock
        laterBlock == IF swap THEN delegateLastBlock ELSE blockHeader
    IN  IF delegateLastBlock = NoHeader THEN "none"
        ELSE IF /\ earlierBlock.maxHeightPrevoted = laterBlock.maxHeightPrevoted
                /\ earlierBlock.height >= laterBlock.height
             THEN "BFTForkChoiceRuleError"
        ELSE IF earlierBlock.height > laterBlock.maxHeightPreviouslyForged
             THEN "BFTChainDisjointError"
        ELSE IF earlierBlock.maxHeightPrevoted > laterBlock.maxHeightPrevoted
             THEN "BFTLowerChainBranchError"
        ELSE "none"

\* the bug of checking maxHeightPrevoted one header too late
verifyBlockHeadersOneLate(fm, blockHeader) ==
    IF /\ Len(fm.headers) > processingThreshold
       /\ blockHeader.maxHeightPrevoted # fm.chainMaxHeightPrevoted
    THEN "BFTInvalidAttributeError"
    ELSE verifyAgainstLastBlock(fm, blockHeader)

\* the error verifyBlockHeaders throws, "none" when it returns true
verifyBlockHeaders(fm, blockHeader) ==
    IF /\ Len(fm.headers) >= processingThreshold
       /\ blockHeader.maxHeightPrevoted # fm.chainMaxHeightPrevoted
    THEN "BFTInvalidAttributeError"
    ELSE verifyAgainstLastBlock(fm, blockHeader)

----------------------------------------------------------------------------
(* FinalityManager: public methods, as functions from the fields before   *)
(* the call to the fields after it plus the error thrown.                  *)

\* the fields at the start of a call: no signal emitted yet
Enter(fm) == [fm EXCEPT !.emitted = <<>>, !.log = <<>>]

\* addBlockHeader past the two checks: the append, the tally, the update
\* of the two heights and the cleanup
appendAndCount(fm, blockHeader) ==
    LET added == [fm EXCEPT
                     !.headers = HeadersAdd(fm.headers, blockHeader),
                     !.log = IF Len(fm.headers) >= maxHeaders
                             THEN <<"append", "evict">>
                             ELSE <<"append">>]
    IN  cleanup(updatePreVotedAndFinalizedHeight(
                    updatePreVotesPreCommits(added, blockHeader)))

\* the bug of adding the header to the list before verifying it
addBlockHeaderBeforeVerifying(fm, blockHeader) ==
    IF ~validateBlockHeader(blockHeader)
    THEN [fm |-> Enter(fm), error |-> "InvalidHeaderSchema"]
    ELSE IF verifyBlockHeaders(fm, blockHeader) # "none"
    THEN [fm |-> [Enter(fm) EXCEPT !.headers = HeadersAdd(fm.headers, blockHeader)],
          error |-> verifyBlockHeaders(fm, blockHeader)]
    ELSE [fm |-> appendAndCount(Enter(fm), blockHeader), error |-> "none"]

addBlockHeader(fm, blockHeader) ==
    IF ~validateBlockHeader(blockHeader)
    THEN [fm |-> Enter(fm), error |-> "InvalidHeaderSchema"]
    ELSE IF verifyBlockHeaders(fm, blockHeader) # "none"
    THEN [fm |-> Enter(fm), error |-> verifyBlockHeaders(fm, blockHeader)]
    ELSE [fm |-> appendAndCount(Enter(fm), blockHeader), error |-> "none"]

\* the bug of leaving the tallies of the removed headers in place
removeBlockHeadersWithoutRecompute(fm, aboveHeight) ==
    [fm |-> [Enter(fm) EXCEPT
                !.headers = HeadersRemove(fm.headers, aboveHeight),
                !.log = <<"remove">>],
     error |-> "none"]

removeBlockHeaders(fm, aboveHeight) ==
    LET removed == [Enter(fm) EXCEPT
                       !.headers = HeadersRemove(fm.headers, aboveHeight),
                       !.log = <<"remove">>]
    IN  [fm |-> recompute(removed), error |-> "none"]

----------------------------------------------------------------------------
(* The state machine *)

FM == [headers |-> headers, state |-> state, preVotes |-> preVotes,
       preCommits |-> preCommits,
       chainMaxHeightPrevoted |-> chainMaxHeightPrevoted,
       finalizedHeight |-> finalizedHeight, emitted |-> emitted, log |-> log]

\* the heights a caller may append next: the list is ordered by height and
\* takes the next height only
NextHeights(items, cap) ==
    IF Len(items) = 0 THEN {h \in 1..MaxStartHeight : h <= cap}
    ELSE {h \in {maxHeight(items) + 1} : h <= cap}

\* the headers a caller may pass: any delegate, any claim of a previously
\* forged height up to the header's own height (-1 fails the schema), the
\* current pre-voted tip or a low claim of it
HeaderInputs(fm) ==
    UNION {[height : {h},
            delegatePublicKey : Delegates,
            maxHeightPreviouslyForged : -1..h,
            maxHeightPrevoted : {fm.chainMaxHeightPrevoted} \cup 0..MaxPrevoted,
            delegateMinHeightActive : 1..MaxMinActive] :
                h \in NextHeights(fm.headers, MaxHeight)}

\* the headers of the long runs, which go one height past a full list:
\* no claim of a previously forged height, the height before, or the
\* header's own height
ChainInputs(fm) ==
    UNION {[height : {h},
            delegatePublicKey : Delegates,
            maxHeightPreviouslyForged : {-1, 0, h - 1, h},
            maxHeightPrevoted : {fm.chainMaxHeightPrevoted, 0},
            delegateMinHeightActive : {1}] :
                h \in NextHeights(fm.headers, maxHeaders + 1)}

Install(r) ==
    /\ headers' = r.fm.headers
    /\ state' = r.fm.state
    /\ preVotes' = r.fm.preVotes
    /\ preCommits' = r.fm.preCommits
    /\ chainMaxHeightPrevoted' = r.fm.chainMaxHeightPrevoted
    /\ finalizedHeight' = r.fm.finalizedHeight
    /\ emitted' = r.fm.emitted
    /\ log' = r.fm.log

Init ==
    /\ activeDelegates \in 1..MaxActiveDelegates
    /\ finalizedHeight \in 0..MaxInitFinalized
    /\ headers = <<>>
    /\ chainMaxHeightPrevoted = 0
    /\ state = EmptyMap
    /\ preVotes = EmptyMap
    /\ preCommits = EmptyMap
    /\ emitted = <<>>
    /\ log = <<>>
    /\ lastCall = [op |-> "constructor", error |-> "none"]
    /\ P2PIdle
    /\ ControllerIdle

AddBlockHeaderOf(inputs) ==
    \E blockHeader \in inputs :
        LET r == addBlockHeader(FM, blockHeader)
        IN  /\ Install(r)
            /\ lastCall' = [op |-> "addBlockHeader", error |-> r.error]
            /\ UNCHANGED <<activeDelegates, p2pVars, ctlVars>>

AddBlockHeader == AddBlockHeaderOf(HeaderInputs(FM))

AddChainHeader == AddBlockHeaderOf(ChainInputs(FM))

RemoveBlockHeadersOf(heights) ==
    \E aboveHeight \in heights :
        LET r == removeBlockHeaders(FM, aboveHeight)
        IN  /\ Len(headers) > 0
            /\ Install(r)
            /\ lastCall' = [op |-> "removeBlockHeaders", error |-> r.error,
                            aboveHeight |-> aboveHeight]
            /\ UNCHANGED <<activeDelegates, p2pVars, ctlVars>>

RemoveBlockHeaders == RemoveBlockHeadersOf(0..MaxHeight)

Next == AddBlockHeader \/ RemoveBlockHeaders

Spec == Init /\ [][Next]_vars

\* long runs of one active delegate: the list of 5 headers fills up and the
\* next header evicts the oldest
InitChain == Init /\ activeDelegates = 1

\* the caller reverts the header it has just added and adds it again:
\* removeBlockHeaders({aboveHeight: h.height - 1}), then addBlockHeader(h)
ReAddLastHeader ==
    /\ lastCall.op = "addBlockHeader"
    /\ lastCall.error = "none"
    /\ LET h == headers[Len(headers)]
           removed == removeBlockHeaders(FM, h.height - 1)
           r == addBlockHeader(removed.fm, h)
       IN  /\ Install(r)
           /\ lastCall' = [op |-> "reAddLastHeader", error |-> r.error]
           /\ UNCHANGED <<activeDelegates, p2pVars, ctlVars>>

\* the header lists of the walk: at each height up to MaxWalkHeight no
\* header (0), or a header of the delegate of the header walked from (1) or
\* of another delegate (2), with any claim of a height forged before; the
\* walk only compares the keys
WalkLists ==
    LET entries == [delegatePublicKey : 0..2,
                    maxHeightPreviouslyForged : 0..MaxWalkHeight]
        stored(f, j) == [height |-> j,
                         delegatePublicKey |-> f[j].delegatePublicKey,
                         maxHeightPreviouslyForged |->
                             f[j].maxHeightPreviouslyForged,
                         maxHeightPrevoted |-> 0,
                         delegateMinHeightActive |-> 1]
        RECURSIVE ListOf(_, _)
        ListOf(f, j) ==
            IF j > MaxWalkHeight THEN <<>>
            ELSE IF f[j].delegatePublicKey = 0
                 THEN ListOf(f, j + 1)
                 ELSE <<stored(f, j)>> \o ListOf(f, j + 1)
    IN  {ListOf(f, 1) : f \in [1..MaxWalkHeight -> entries]}

\* the headers of the walk: of delegate 1, with any claim of a height forged
\* before, below the header's height or not
WalkHeaders ==
    [height : 1..(MaxWalkHeight + 1),
     delegatePublicKey : {1},
     maxHeightPreviouslyForged : 0..(MaxWalkHeight + 1),
     maxHeightPrevoted : {0},
     delegateMinHeightActive : {1}]

\* _getMinValidHeightToPreCommit(header) is entered on a list of headers
InitWalk ==
    /\ activeDelegates = 1
    /\ finalizedHeight = 0
    /\ headers \in WalkLists
    /\ chainMaxHeightPrevoted = 0
    /\ state = EmptyMap
    /\ preVotes = EmptyMap
    /\ preCommits = EmptyMap
    /\ emitted = <<>>
    /\ log = <<>>
    /\ P2PIdle
    /\ ControllerIdle
    /\ \E header \in WalkHeaders :
           lastCall = [op |-> "getMinValidHeightToPreCommit",
                       header |-> header,
                       needleHeight |->
                           Max2(header.maxHeightPreviouslyForged,
                                header.height - processingThreshold),
                       currentBlockHeader |-> header,
                       result |-> -1]

\* the while condition is tested and the loop body run once
WalkStep ==
    /\ lastCall.op = "getMinValidHeightToPreCommit"
    /\ lastCall.result = -1
    /\ LET searchTillHeight ==
               Max2(minHeight(headers),
                    lastCall.header.height - processingThreshold)
           next == WalkIteration(headers, lastCall.header, searchTillHeight,
                                 lastCall.needleHeight,
                                 lastCall.currentBlockHeader)
       IN  lastCall' = [lastCall EXCEPT
                           !.result = next.result,
                           !.needleHeight = next.needleHeight,
                           !.currentBlockHeader = next.currentBlockHeader]
    /\ UNCHANGED <<fmVars, p2pVars, ctlVars>>

NextWalk == WalkStep

SpecWalk == InitWalk /\ [][NextWalk]_vars /\ WF_vars(NextWalk)

\* the long runs with removals: the tallies reach more than maxHeaders
\* heights when a header is added and when the full list is recomputed
NextTrim ==
    AddChainHeader \/ RemoveBlockHeadersOf(maxHeaders..(maxHeaders + 1))

SpecTrim == InitChain /\ [][NextTrim]_vars

\* the headers of the runs on the retroactive window: one active delegate
\* (a window of 2 heights below the header), delegates that join late and
\* delegates that are active from a later height only
WindowInputs(fm) ==
    UNION {[height : {h},
            delegatePublicKey : Delegates,
            maxHeightPreviouslyForged : {0, h - 1},
            maxHeightPrevoted : {fm.chainMaxHeightPrevoted},
            delegateMinHeightActive : 1..MaxWindowMinActive] :
                h \in NextHeights(fm.headers, MaxWindowHeight)}

AddWindowHeader == AddBlockHeaderOf(WindowInputs(FM))

NextWindow == AddWindowHeader \/ RemoveBlockHeaders

SpecWindow == InitChain /\ [][NextWindow]_vars

NextChain == AddChainHeader \/ ReAddLastHeader

SpecChain == InitChain /\ [][NextChain]_vars

\* scenario S1: the active delegates forge in round-robin from height 1,
\* each header names the delegate's block of the round before and the
\* current pre-voted tip
RoundHeader(fm) ==
    LET height == maxHeight(fm.headers) + 1
    IN  [height |-> height,
         delegatePublicKey |-> ((height - 1) % activeDelegates) + 1,
         maxHeightPreviouslyForged |-> Max2(height - activeDelegates, 0),
         maxHeightPrevoted |-> fm.chainMaxHeightPrevoted,
         delegateMinHeightActive |-> 1]

InitRound ==
    /\ activeDelegates \in 1..MaxRoundDelegates
    /\ finalizedHeight \in 0..MaxInitFinalized
    /\ headers = <<>>
    /\ chainMaxHeightPrevoted = 0
    /\ state = EmptyMap
    /\ preVotes = EmptyMap
    /\ preCommits = EmptyMap
    /\ emitted = <<>>
    /\ log = <<>>
    /\ lastCall = [op |-> "constructor", error |-> "none"]
    /\ P2PIdle
    /\ ControllerIdle

AddRoundHeader ==
    /\ maxHeight(headers) < MaxRounds * activeDelegates
    /\ AddBlockHeaderOf({RoundHeader(FM)})

NextRound == AddRoundHeader

SpecRound == InitRound /\ [][NextRound]_vars


----------------------------------------------------------------------------
(* BFT.forkChoice: the classification of a received block against the tip. *)
(* A block is [id, height, maxHeightPrevoted, previousBlockId,              *)
(* generatorPublicKey, timestamp, receivedAt].                              *)

isIdenticalBlock(lastBlock, block) == block.id = lastBlock.id

isValidBlock(lastBlock, block) ==
    /\ block.previousBlockId = lastBlock.id
    /\ block.height = lastBlock.height + 1

isDuplicateBlock(lastBlock, block) ==
    /\ block.height = lastBlock.height
    /\ block.maxHeightPrevoted = lastBlock.maxHeightPrevoted
    /\ block.previousBlockId = lastBlock.previousBlockId

isDoubleForging(lastBlock, block) ==
    /\ isDuplicateBlock(lastBlock, block)
    /\ block.generatorPublicKey = lastBlock.generatorPublicKey

\* the bug of letting the tip win when both blocks are equally late
isTieBreakStrict(lastBlock, block) ==
    /\ isDuplicateBlock(lastBlock, block)
    /\ block.receivedAt - block.timestamp <
           lastBlock.receivedAt - lastBlock.timestamp

\* the received-late heuristic: the block with the smaller
\* receivedAt - timestamp wins, equality going to the new block
isTieBreak(lastBlock, block) ==
    /\ isDuplicateBlock(lastBlock, block)
    /\ block.receivedAt - block.timestamp <=
           lastBlock.receivedAt - lastBlock.timestamp

isDifferentChain(lastBlock, block) ==
    \/ block.maxHeightPrevoted > lastBlock.maxHeightPrevoted
    \/ /\ block.height > lastBlock.height
       /\ block.maxHeightPrevoted = lastBlock.maxHeightPrevoted

\* the bug of testing the tie break before the double forging
forkChoiceTieBreakFirst(block, lastBlock) ==
    IF isIdenticalBlock(lastBlock, block) THEN "FORK_STATUS_IDENTICAL_BLOCK"
    ELSE IF isValidBlock(lastBlock, block) THEN "FORK_STATUS_VALID_BLOCK"
    ELSE IF isTieBreak(lastBlock, block) THEN "FORK_STATUS_TIE_BREAK"
    ELSE IF isDoubleForging(lastBlock, block) THEN "FORK_STATUS_DOUBLE_FORGING"
    ELSE IF isDifferentChain(lastBlock, block) THEN "FORK_STATUS_DIFFERENT_CHAIN"
    ELSE "FORK_STATUS_DISCARD"

forkChoice(block, lastBlock) ==
    IF isIdenticalBlock(lastBlock, block) THEN "FORK_STATUS_IDENTICAL_BLOCK"
    ELSE IF isValidBlock(lastBlock, block) THEN "FORK_STATUS_VALID_BLOCK"
    ELSE IF isDoubleForging(lastBlock, block) THEN "FORK_STATUS_DOUBLE_FORGING"
    ELSE IF isTieBreak(lastBlock, block) THEN "FORK_STATUS_TIE_BREAK"
    ELSE IF isDifferentChain(lastBlock, block) THEN "FORK_STATUS_DIFFERENT_CHAIN"
    ELSE "FORK_STATUS_DISCARD"

\* the tips: up to the names of blocks and delegates, block 1 forged by
\* delegate 1 on top of block 0 at time 0, received with some delay
LastBlocks ==
    [id : {1}, height : 1..MaxForkHeight, maxHeightPrevoted : 0..MaxForkPrevoted,
     previousBlockId : {0}, generatorPublicKey : {1}, timestamp : {0},
     receivedAt : 0..MaxDelay]

\* the blocks a peer may send, before forkChoice stamps them with receivedAt
ReceivedBlocks ==
    [id : 1..MaxBlockId, height : 1..(MaxForkHeight + 1),
     maxHeightPrevoted : 0..MaxForkPrevoted, previousBlockId : 0..MaxBlockId,
     generatorPublicKey : Delegates, timestamp : 0..MaxDelay]

\* a block id is the hash of the block: two blocks of one id are one block
SameBlock(a, b) ==
    /\ a.height = b.height
    /\ a.maxHeightPrevoted = b.maxHeightPrevoted
    /\ a.previousBlockId = b.previousBlockId
    /\ a.generatorPublicKey = b.generatorPublicKey
    /\ a.timestamp = b.timestamp

Stamp(block, now) ==
    [id |-> block.id, height |-> block.height,
     maxHeightPrevoted |-> block.maxHeightPrevoted,
     previousBlockId |-> block.previousBlockId,
     generatorPublicKey |-> block.generatorPublicKey,
     timestamp |-> block.timestamp, receivedAt |-> now]

\* a block arrives at the time now while lastBlock is the tip
ForkChoiceInputs ==
    {p \in {[block |-> Stamp(received, received.timestamp + delay),
             lastBlock |-> lastBlock] :
                lastBlock \in LastBlocks, received \in ReceivedBlocks,
                delay \in 0..MaxDelay} :
        p.block.id = p.lastBlock.id => SameBlock(p.block, p.lastBlock)}

InitForkChoice ==
    /\ activeDelegates = 1
    /\ finalizedHeight = 0
    /\ headers = <<>>
    /\ chainMaxHeightPrevoted = 0
    /\ state = EmptyMap
    /\ preVotes = EmptyMap
    /\ preCommits = EmptyMap
    /\ emitted = <<>>
    /\ log = <<>>
    /\ P2PIdle
    /\ ControllerIdle
    /\ \E p \in ForkChoiceInputs :
           lastCall = [op |-> "receiveBlock", block |-> p.block,
                       lastBlock |-> p.lastBlock]

\* forkChoice(block, lastBlock) on the block that has arrived
ForkChoice ==
    /\ lastCall.op = "receiveBlock"
    /\ lastCall' = [op |-> "forkChoice", block |-> lastCall.block,
                    lastBlock |-> lastCall.lastBlock,
                    result |-> forkChoice(lastCall.block, lastCall.lastBlock)]
    /\ UNCHANGED <<fmVars, p2pVars, ctlVars>>

NextForkChoice == ForkChoice

SpecForkChoice == InitForkChoice /\ [][NextForkChoice]_vars

----------------------------------------------------------------------------
(* BFT: the module that owns the FinalityManager.  addNewBlock passes the   *)
(* header of the block to addBlockHeader; deleteBlocks and                  *)
(* isBFTProtocolCompliant are below.                                        *)

\* three rounds: block.height - block.maxHeightPreviouslyForged up to which
\* the block at maxHeightPreviouslyForged is looked up (303 for 101 delegates)
heightThreshold == activeDelegates * BFT_ROUND_THRESHOLD

\* the bug of looking one height further back
isBFTProtocolCompliantOneFurther(fm, block) ==
    LET previouslyForged == HeadersGet(fm.headers, block.maxHeightPreviouslyForged)
    IN  ~ \/ block.maxHeightPreviouslyForged >= block.height
          \/ /\ block.height - block.maxHeightPreviouslyForged <= heightThreshold + 1
             /\ previouslyForged # NoHeader
             /\ previouslyForged.delegatePublicKey # block.generatorPublicKey

\* the bug of failing a block whose previously forged block is not stored
isBFTProtocolCompliantOfStoredOnly(fm, block) ==
    LET previouslyForged == HeadersGet(fm.headers, block.maxHeightPreviouslyForged)
    IN  ~ \/ block.maxHeightPreviouslyForged >= block.height
          \/ previouslyForged = NoHeader
          \/ /\ block.height - block.maxHeightPreviouslyForged <= heightThreshold
             /\ previouslyForged.delegatePublicKey # block.generatorPublicKey

isBFTProtocolCompliant(fm, block) ==
    LET previouslyForged == HeadersGet(fm.headers, block.maxHeightPreviouslyForged)
    IN  ~ \/ block.maxHeightPreviouslyForged >= block.height
          \/ /\ block.height - block.maxHeightPreviouslyForged <= heightThreshold
             /\ previouslyForged # NoHeader
             /\ previouslyForged.delegatePublicKey # block.generatorPublicKey

\* the bug of looking at the highest of the deleted blocks only
deleteBlocksCheckingHighest(fm, blockHeights) ==
    IF SetMax(blockHeights) <= fm.finalizedHeight
    THEN [fm |-> Enter(fm),
          error |-> "Can not delete block below or same as finalized height"]
    ELSE removeBlockHeaders(fm, SetMin(blockHeights) - 1)

\* deleteBlocks(blocks), blocks given by their heights; the storage holds no
\* block below the list to load back
deleteBlocks(fm, blockHeights) ==
    IF \E h \in blockHeights : h <= fm.finalizedHeight
    THEN [fm |-> Enter(fm),
          error |-> "Can not delete block below or same as finalized height"]
    ELSE removeBlockHeaders(fm, SetMin(blockHeights) - 1)

\* the blocks passed to addNewBlock, as headers: forged by any delegate that
\* claims no previously forged height or the height before
BlockInputs(fm) ==
    UNION {[height : {h},
            delegatePublicKey : Delegates,
            maxHeightPreviouslyForged : {0, h - 1},
            maxHeightPrevoted : {fm.chainMaxHeightPrevoted},
            delegateMinHeightActive : {1}] :
                h \in NextHeights(fm.headers, MaxHeight)}

\* the blocks passed to isBFTProtocolCompliant
CheckedBlocks ==
    [height : 1..MaxCheckedHeight, generatorPublicKey : Delegates,
     maxHeightPreviouslyForged : 0..MaxHeight]

AddNewBlock == AddBlockHeaderOf(BlockInputs(FM))

DeleteBlocks ==
    \E blockHeights \in (SUBSET (1..MaxHeight)) \ {{}} :
        LET r == deleteBlocks(FM, blockHeights)
        IN  /\ Len(headers) > 0
            /\ Install(r)
            /\ lastCall' = [op |-> "deleteBlocks", error |-> r.error,
                            blockHeights |-> blockHeights]
            /\ UNCHANGED <<activeDelegates, p2pVars, ctlVars>>

\* the call reads the manager and changes nothing: a call that follows
\* another one reaches the states the first one reaches, and is left out
IsBFTProtocolCompliant ==
    \E block \in CheckedBlocks :
        /\ lastCall.op # "isBFTProtocolCompliant"
        /\ lastCall' = [op |-> "isBFTProtocolCompliant", block |-> block,
                        result |-> isBFTProtocolCompliant(FM, block)]
        /\ UNCHANGED <<fmVars, p2pVars, ctlVars>>

NextBFT == AddNewBlock \/ DeleteBlocks \/ IsBFTProtocolCompliant

SpecBFT == Init /\ [][NextBFT]_vars

----------------------------------------------------------------------------
(* PeerBook: the address book of the P2P coordinator, a new table and a     *)
(* tried table.  bk is the record [newPeers, triedPeers]; a peerInfo is     *)
(* [peerId, sharedState], sharedState 0 standing for none.  A method is the *)
(* set of its possible outcomes [bk, result, error, peerInfo]: the bucket   *)
(* and the slot of an entry depend on a hash, and an entry that takes an    *)
(* occupied slot evicts the occupant.                                       *)

DEFAULT_MAX_RECONNECT_TRIES == 3

PeerIds == 1..MaxPeers

\* peerId is ipAddress:wsPort; peers 1 and 2 share an address
ipAddress(peerId) == (peerId + 1) \div 2

\* internalState of a peerInfo: "none" when it has none, else "advertised" or
\* "private" as its advertiseAddress is true or false
DefaultInternalState == "advertised"

PeerInfos == [peerId : PeerIds, sharedState : 0..MaxSharedState,
              internalState : {DefaultInternalState}]

NoPeer == [peerId |-> 0, sharedState |-> 0, internalState |-> "none"]

\* the argument of a call that gives the peerId only
PeerOfId(peerId) == [peerId |-> peerId, sharedState |-> 0, internalState |-> "none"]

Del(f, k) == [x \in (DOMAIN f) \ {k} |-> f[x]]

\* the tables an entry can leave behind when it is put into one: its slot was
\* free, or it was taken by another entry, which is evicted
TakeSlot(table, k, v) ==
    {Put(table, k, v)} \cup {Put(Del(table, q), k, v) : q \in (DOMAIN table) \ {k}}

Book == [newPeers |-> newPeers, triedPeers |-> triedPeers]

Outcome(bk, result, error, peerInfo) ==
    [bk |-> bk, result |-> result, error |-> error, peerInfo |-> peerInfo]

getPeer(bk, peerInfo) ==
    IF peerInfo.peerId \in DOMAIN bk.triedPeers
    THEN bk.triedPeers[peerInfo.peerId].peerInfo
    ELSE IF peerInfo.peerId \in DOMAIN bk.newPeers
         THEN bk.newPeers[peerInfo.peerId]
         ELSE NoPeer

hasPeer(bk, peerInfo) == getPeer(bk, peerInfo) # NoPeer

\* the bug of looking for the peer in the new table only
addPeerCheckingNewOnly(bk, peerInfo) ==
    IF peerInfo.peerId \in DOMAIN bk.newPeers
    THEN {Outcome(bk, FALSE, "ExistingPeerError", bk.newPeers[peerInfo.peerId])}
    ELSE {Outcome([bk EXCEPT !.newPeers = t], TRUE, "none", peerInfo) :
             t \in TakeSlot(bk.newPeers, peerInfo.peerId, peerInfo)}

\* the bug of throwing the error with the peerInfo of the caller
addPeerThrowingArgument(bk, peerInfo) ==
    IF hasPeer(bk, peerInfo)
    THEN {Outcome(bk, FALSE, "ExistingPeerError", peerInfo)}
    ELSE {Outcome([bk EXCEPT !.newPeers = t], TRUE, "none", peerInfo) :
             t \in TakeSlot(bk.newPeers, peerInfo.peerId, peerInfo)}

addPeer(bk, peerInfo) ==
    IF hasPeer(bk, peerInfo)
    THEN {Outcome(bk, FALSE, "ExistingPeerError", getPeer(bk, peerInfo))}
    ELSE {Outcome([bk EXCEPT !.newPeers = t], TRUE, "none", peerInfo) :
             t \in TakeSlot(bk.newPeers, peerInfo.peerId, peerInfo)}

\* the bug of leaving the upgraded peer in the new table as well
upgradePeerKeepingNew(bk, peerInfo) ==
    IF peerInfo.peerId \in DOMAIN bk.triedPeers
    THEN {Outcome(bk, TRUE, "none", peerInfo)}
    ELSE IF peerInfo.peerId \in DOMAIN bk.newPeers
         THEN {Outcome([newPeers |-> bk.newPeers, triedPeers |-> t],
                       TRUE, "none", peerInfo) :
                  t \in TakeSlot(bk.triedPeers, peerInfo.peerId,
                                 [peerInfo |-> peerInfo,
                                  numOfConnectionFailures |-> 0])}
         ELSE {Outcome(bk, FALSE, "none", peerInfo)}

upgradePeer(bk, peerInfo) ==
    IF peerInfo.peerId \in DOMAIN bk.triedPeers
    THEN {Outcome(bk, TRUE, "none", peerInfo)}
    ELSE IF peerInfo.peerId \in DOMAIN bk.newPeers
         THEN {Outcome([newPeers |-> Del(bk.newPeers, peerInfo.peerId),
                        triedPeers |-> t], TRUE, "none", peerInfo) :
                  t \in TakeSlot(bk.triedPeers, peerInfo.peerId,
                                 [peerInfo |-> peerInfo,
                                  numOfConnectionFailures |-> 0])}
         ELSE {Outcome(bk, FALSE, "none", peerInfo)}

\* the bug of moving a tried peer back one failure early
downgradePeerOneEarly(bk, peerInfo) ==
    IF peerInfo.peerId \in DOMAIN bk.newPeers
    THEN {Outcome([bk EXCEPT !.newPeers = Del(bk.newPeers, peerInfo.peerId)],
                  TRUE, "none", peerInfo)}
    ELSE IF peerInfo.peerId \in DOMAIN bk.triedPeers
         THEN LET entry == bk.triedPeers[peerInfo.peerId]
                  failures == entry.numOfConnectionFailures + 1
              IN  IF failures >= DEFAULT_MAX_RECONNECT_TRIES - 1
                  THEN {Outcome([newPeers |-> t,
                                 triedPeers |-> Del(bk.triedPeers, peerInfo.peerId)],
                                FALSE, "none", peerInfo) :
                           t \in TakeSlot(bk.newPeers, peerInfo.peerId, entry.peerInfo)}
                  ELSE {Outcome([bk EXCEPT
                                    !.triedPeers[peerInfo.peerId].numOfConnectionFailures
                                        = failures],
                                FALSE, "none", peerInfo)}
         ELSE {Outcome(bk, FALSE, "none", peerInfo)}

downgradePeer(bk, peerInfo) ==
    IF peerInfo.peerId \in DOMAIN bk.newPeers
    THEN {Outcome([bk EXCEPT !.newPeers = Del(bk.newPeers, peerInfo.peerId)],
                  TRUE, "none", peerInfo)}
    ELSE IF peerInfo.peerId \in DOMAIN bk.triedPeers
         THEN LET entry == bk.triedPeers[peerInfo.peerId]
                  failures == entry.numOfConnectionFailures + 1
              IN  IF failures >= DEFAULT_MAX_RECONNECT_TRIES
                  THEN {Outcome([newPeers |-> t,
                                 triedPeers |-> Del(bk.triedPeers, peerInfo.peerId)],
                                FALSE, "none", peerInfo) :
                           t \in TakeSlot(bk.newPeers, peerInfo.peerId, entry.peerInfo)}
                  ELSE {Outcome([bk EXCEPT
                                    !.triedPeers[peerInfo.peerId].numOfConnectionFailures
                                        = failures],
                                FALSE, "none", peerInfo)}
         ELSE {Outcome(bk, FALSE, "none", peerInfo)}

removePeer(bk, peerInfo) ==
    {Outcome([newPeers |-> Del(bk.newPeers, peerInfo.peerId),
              triedPeers |-> Del(bk.triedPeers, peerInfo.peerId)],
             hasPeer(bk, peerInfo), "none", peerInfo)}

updatePeer(bk, peerInfo) ==
    IF peerInfo.peerId \in DOMAIN bk.triedPeers
    THEN {Outcome([bk EXCEPT !.triedPeers[peerInfo.peerId].peerInfo = peerInfo],
                  TRUE, "none", peerInfo)}
    ELSE IF peerInfo.peerId \in DOMAIN bk.newPeers
         THEN {Outcome([bk EXCEPT !.newPeers[peerInfo.peerId] = peerInfo],
                       TRUE, "none", peerInfo)}
         ELSE {Outcome(bk, FALSE, "none", peerInfo)}

\* a call of a method of the book: one of its outcomes is installed
BookCall(op, outcomes, peerInfo) ==
    \E r \in outcomes :
        /\ newPeers' = r.bk.newPeers
        /\ triedPeers' = r.bk.triedPeers
        /\ lastCall' = [op |-> op, peerInfo |-> peerInfo, result |-> r.result,
                        error |-> r.error, thrown |-> r.peerInfo]
        /\ UNCHANGED <<lifeVars, ctlVars>>
        /\ UNCHANGED <<fmVars, bannedPeers, sanitizedPeerLists, peerPool,
                       hasConnected, pendingUnbans>>

AddPeer == \E p \in PeerInfos : BookCall("addPeer", addPeer(Book, p), p)

UpgradePeer == \E p \in PeerInfos : BookCall("upgradePeer", upgradePeer(Book, p), p)

DowngradePeer ==
    \E p \in PeerInfos : BookCall("downgradePeer", downgradePeer(Book, p), p)

RemovePeer == \E p \in PeerInfos : BookCall("removePeer", removePeer(Book, p), p)

UpdatePeer == \E p \in PeerInfos : BookCall("updatePeer", updatePeer(Book, p), p)

FMIdle ==
    /\ activeDelegates = 1
    /\ finalizedHeight = 0
    /\ headers = <<>>
    /\ chainMaxHeightPrevoted = 0
    /\ state = EmptyMap
    /\ preVotes = EmptyMap
    /\ preCommits = EmptyMap
    /\ emitted = <<>>
    /\ log = <<>>

\* new PeerBook(config): both tables empty
InitBook ==
    /\ FMIdle
    /\ P2PIdle
    /\ ControllerIdle
    /\ lastCall = [op |-> "constructor", error |-> "none"]

NextBook == AddPeer \/ UpgradePeer \/ DowngradePeer \/ RemovePeer \/ UpdatePeer

SpecBook == InitBook /\ [][NextBook]_vars

----------------------------------------------------------------------------
(* P2P: the coordinator.  It owns the PeerBook, the banned addresses and    *)
(* the pool of connected peers, and handles the events of the pool and of   *)
(* the server.  A handler is the set of its possible outcomes [bk, events], *)
(* events being what it emits; an action installs one of them.              *)

Books(outcomes) == {o.bk : o \in outcomes}

Handled(bk, events) == [bk |-> bk, events |-> events]

\* sharedState: peerInfo.sharedState ? {...peerInfo.sharedState} : stored
sharedStateOr(peerInfo, stored) ==
    IF peerInfo.sharedState # 0 THEN peerInfo.sharedState ELSE stored.sharedState

RECURSIVE SeqOf(_)
SeqOf(S) == IF S = {} THEN <<>> ELSE <<SetMin(S)>> \o SeqOf(S \ {SetMin(S)})

\* the bug of adding the configured peers without upgrading them
RECURSIVE initializePeerBookWithoutUpgrade(_, _)
initializePeerBookWithoutUpgrade(bks, peers) ==
    IF peers = <<>> THEN bks
    ELSE LET peerInfo == [peerId |-> Head(peers), sharedState |-> 0,
                          internalState |-> DefaultInternalState]
             added(bk) == {a.bk : a \in addPeer(bk, peerInfo)}
         IN  initializePeerBookWithoutUpgrade(UNION {added(bk) : bk \in bks},
                                              Tail(peers))

\* the books _initializePeerBook can leave when it starts from one of bks and
\* still has to add peers
RECURSIVE initializePeerBook(_, _)
initializePeerBook(bks, peers) ==
    IF peers = <<>> THEN bks
    ELSE LET peerInfo == [peerId |-> Head(peers), sharedState |-> 0,
                          internalState |-> DefaultInternalState]
             added(bk) ==
                 UNION {IF a.error = "none"
                        THEN Books(upgradePeer(a.bk, peerInfo))
                        ELSE Books(upgradePeer(a.bk, a.peerInfo)) :
                           a \in addPeer(bk, peerInfo)}
         IN  initializePeerBook(UNION {added(bk) : bk \in bks}, Tail(peers))

\* the bug of not recovering from ExistingPeerError
handleOutboundPeerConnectGivingUp(bk, peerInfo) ==
    UNION {IF a.error = "none"
           THEN Books(upgradePeer(a.bk, peerInfo))
           ELSE {a.bk} :
              a \in addPeer(bk, peerInfo)}

handleOutboundPeerConnect(bk, peerInfo) ==
    UNION {IF a.error = "none"
           THEN Books(upgradePeer(a.bk, peerInfo))
           ELSE LET updatedPeerInfo ==
                        [internalState |-> a.peerInfo.internalState,
                         sharedState |-> peerInfo.sharedState,
                         peerId |-> peerInfo.peerId]
                IN  Books(upgradePeer(a.bk, updatedPeerInfo)) :
              a \in addPeer(bk, peerInfo)}

handleOutboundPeerConnectAbort(bk, lists, peerInfo) ==
    LET isWhitelisted == peerInfo.peerId \in lists.whitelisted
    IN  IF hasPeer(bk, peerInfo) /\ ~isWhitelisted
        THEN Books(downgradePeer(bk, peerInfo))
        ELSE {bk}

handlePeerInfoUpdate(bk, peerInfo) ==
    UNION {IF a.error = "none"
           THEN Books(upgradePeer(a.bk, peerInfo))
           ELSE LET updatedPeerInfo ==
                        [a.peerInfo EXCEPT
                            !.sharedState = sharedStateOr(peerInfo, a.peerInfo)]
                IN  UNION {IF u.result
                           THEN Books(upgradePeer(u.bk, updatedPeerInfo))
                           ELSE {u.bk} :
                              u \in updatePeer(a.bk, updatedPeerInfo)} :
              a \in addPeer(bk, peerInfo)}

\* the bug of removing a whitelisted peer as well
handleBanPeerOfAnyPeer(bk, lists, peerId) ==
    LET bannedPeerInfo == PeerOfId(peerId)
    IN  IF hasPeer(bk, bannedPeerInfo)
        THEN Books(removePeer(bk, bannedPeerInfo))
        ELSE {bk}

handleBanPeer(bk, lists, peerId) ==
    LET isWhitelisted == peerId \in lists.whitelisted
        bannedPeerInfo == PeerOfId(peerId)
    IN  IF hasPeer(bk, bannedPeerInfo) /\ ~isWhitelisted
        THEN Books(removePeer(bk, bannedPeerInfo))
        ELSE {bk}

\* the bug of adding the discovered peer without looking at the blacklist
handleDiscoveredPeerOfAnyPeer(bk, lists, pool, detailedPeerInfo) ==
    IF ~hasPeer(bk, detailedPeerInfo)
    THEN {Handled(a.bk, <<"EVENT_DISCOVERED_PEER">>) :
            a \in addPeer(bk, detailedPeerInfo)}
    ELSE {Handled(bk, <<>>)}

handleDiscoveredPeer(bk, lists, pool, detailedPeerInfo) ==
    LET isBlacklisted == detailedPeerInfo.peerId \in lists.blacklistedPeers
    IN  IF ~hasPeer(bk, detailedPeerInfo) /\ ~isBlacklisted
        THEN UNION {
               IF a.error = "none"
               THEN {Handled(a.bk, <<"EVENT_DISCOVERED_PEER">>)}
               ELSE IF a.peerInfo.peerId \notin pool
                    THEN LET updatedPeerInfo ==
                                 [detailedPeerInfo EXCEPT
                                     !.sharedState =
                                         sharedStateOr(detailedPeerInfo, a.peerInfo)]
                         IN  UNION {IF u.result
                                    THEN {Handled(b, <<>>) :
                                            b \in Books(upgradePeer(u.bk, updatedPeerInfo))}
                                    ELSE {Handled(u.bk, <<>>)} :
                                       u \in updatePeer(a.bk, updatedPeerInfo)}
                    ELSE {Handled(a.bk, <<>>)} :
                  a \in addPeer(bk, detailedPeerInfo)}
        ELSE {Handled(bk, <<>>)}

\* the 'connection' listener of _startPeerServer, after the pool was asked
handleConnection(bk, incomingPeerInfo) ==
    {a.bk : a \in addPeer(bk, incomingPeerInfo)}

\* one outcome of a handler becomes the state of the coordinator
InstallHandled(op, peerInfo, h) ==
    /\ newPeers' = h.bk.newPeers
    /\ triedPeers' = h.bk.triedPeers
    /\ lastCall' = [op |-> op, peerInfo |-> peerInfo, events |-> h.events]
    /\ UNCHANGED <<fmVars, sanitizedPeerLists, lifeVars, ctlVars>>

\* EVENT_CONNECT_OUTBOUND of the pool, which has connected to peerInfo
HandleOutboundPeerConnectOf(peerInfos) ==
    \E peerInfo \in peerInfos :
        LET connected == Put(peerPool, peerInfo.peerId, peerInfo.internalState)
            isNetworkReady ==
                ~hasConnected /\ Cardinality(DOMAIN connected) > 0
        IN  /\ peerPool' = connected
            /\ hasConnected' = (hasConnected \/ isNetworkReady)
            /\ UNCHANGED <<bannedPeers, pendingUnbans>>
            /\ \E bk \in handleOutboundPeerConnect(Book, peerInfo) :
                   InstallHandled("handleOutboundPeerConnect", peerInfo,
                           Handled(bk, IF isNetworkReady
                                       THEN <<"EVENT_CONNECT_OUTBOUND",
                                              "EVENT_NETWORK_READY">>
                                       ELSE <<"EVENT_CONNECT_OUTBOUND">>))

HandleOutboundPeerConnect == HandleOutboundPeerConnectOf(PeerInfos)

\* EVENT_CONNECT_ABORT_OUTBOUND of the pool, which failed to connect
HandleOutboundPeerConnectAbort ==
    \E peerInfo \in PeerInfos :
        /\ UNCHANGED <<bannedPeers, peerPool, hasConnected, pendingUnbans>>
        /\ \E bk \in handleOutboundPeerConnectAbort(Book, sanitizedPeerLists,
                                                    peerInfo) :
               InstallHandled("handleOutboundPeerConnectAbort", peerInfo,
                       Handled(bk, <<"EVENT_CONNECT_ABORT_OUTBOUND">>))

\* EVENT_UPDATED_PEER_INFO of the pool
HandlePeerInfoUpdate ==
    \E peerInfo \in PeerInfos :
        /\ UNCHANGED <<bannedPeers, peerPool, hasConnected, pendingUnbans>>
        /\ \E bk \in handlePeerInfoUpdate(Book, peerInfo) :
               InstallHandled("handlePeerInfoUpdate", peerInfo,
                       Handled(bk, <<"EVENT_UPDATED_PEER_INFO">>))

\* EVENT_BAN_PEER of the pool, which will lift the ban after peerBanTime
HandleBanPeer ==
    \E peerId \in PeerIds :
        /\ bannedPeers' = bannedPeers \cup {ipAddress(peerId)}
        /\ pendingUnbans' = pendingUnbans \cup {peerId}
        /\ UNCHANGED <<peerPool, hasConnected>>
        /\ \E bk \in handleBanPeer(Book, sanitizedPeerLists, peerId) :
               InstallHandled("handleBanPeer", PeerOfId(peerId),
                       Handled(bk, <<"EVENT_BAN_PEER">>))

\* EVENT_UNBAN_PEER of the pool, peerBanTime after it has banned the peer
HandleUnbanPeer ==
    \E peerId \in pendingUnbans :
        /\ bannedPeers' = bannedPeers \ {ipAddress(peerId)}
        /\ pendingUnbans' = pendingUnbans \ {peerId}
        /\ UNCHANGED <<peerPool, hasConnected>>
        /\ InstallHandled("handleUnbanPeer", PeerOfId(peerId),
                   Handled(Book, <<"EVENT_UNBAN_PEER">>))

\* EVENT_DISCOVERED_PEER of the pool
HandleDiscoveredPeerOf(peerInfos) ==
    \E detailedPeerInfo \in peerInfos :
        /\ UNCHANGED <<bannedPeers, peerPool, hasConnected, pendingUnbans>>
        /\ \E h \in handleDiscoveredPeer(Book, sanitizedPeerLists,
                                         DOMAIN peerPool, detailedPeerInfo) :
               InstallHandled("handleDiscoveredPeer", detailedPeerInfo, h)

HandleDiscoveredPeer == HandleDiscoveredPeerOf(PeerInfos)

\* EVENT_REMOVE_PEER of the pool, which has dropped the peer
HandleRemovePeer ==
    \E peerId \in DOMAIN peerPool :
        /\ peerPool' = Del(peerPool, peerId)
        /\ UNCHANGED <<bannedPeers, hasConnected, pendingUnbans>>
        /\ InstallHandled("handleRemovePeer", PeerOfId(peerId),
                   Handled(Book, <<"EVENT_REMOVE_PEER">>))

\* the sockets of the server: socket.id names the peer the pool is asked for,
\* socket.info.id the peer that is added
Sockets == [id : PeerIds \cup {0}, infoId : PeerIds,
            protocolVersion : 1..MaxSharedState, advertiseAddress : {TRUE}]

\* 'connection' of the server
HandleConnectionOf(sockets) ==
    \E socket \in sockets :
        LET incomingPeerInfo ==
                [peerId |-> socket.infoId,
                 sharedState |-> socket.protocolVersion,
                 internalState |-> IF socket.advertiseAddress
                                   THEN "advertised" ELSE "private"]
            existingPeer == socket.id \in DOMAIN peerPool
        IN  /\ peerPool' = IF existingPeer THEN peerPool
                           ELSE Put(peerPool, incomingPeerInfo.peerId,
                                    incomingPeerInfo.internalState)
            /\ UNCHANGED <<bannedPeers, hasConnected, pendingUnbans>>
            /\ \E bk \in handleConnection(Book, incomingPeerInfo) :
                   InstallHandled("handleConnection", incomingPeerInfo,
                           Handled(bk, IF existingPeer
                                       THEN <<"EVENT_FAILED_TO_ADD_INBOUND_PEER">>
                                       ELSE <<"EVENT_NEW_INBOUND_PEER">>))

HandleConnection == HandleConnectionOf(Sockets)

\* the peer lists a node is configured with, as sanitizePeerLists leaves them
PeerListChoices ==
    {NoPeerLists,
     [whitelisted |-> {1}, fixedPeers |-> {}, previousPeers |-> {},
      blacklistedPeers |-> {2}],
     [whitelisted |-> {}, fixedPeers |-> {1}, previousPeers |-> {1, 2},
      blacklistedPeers |-> {}]}

\* the peers _initializePeerBook loads, in the order it loads them
newPeersToAdd ==
    SeqOf(sanitizedPeerLists.previousPeers)
        \o SeqOf(sanitizedPeerLists.whitelisted)
        \o SeqOf(sanitizedPeerLists.fixedPeers)

\* new P2P(config)
InitP2P ==
    /\ FMIdle
    /\ ControllerIdle
    /\ sanitizedPeerLists \in PeerListChoices
    /\ \E bk \in initializePeerBook(
                    {[newPeers |-> EmptyMap, triedPeers |-> EmptyMap]},
                    newPeersToAdd) :
           /\ newPeers = bk.newPeers
           /\ triedPeers = bk.triedPeers
    /\ bannedPeers = {}
    /\ peerPool = EmptyMap
    /\ hasConnected = FALSE
    /\ pendingUnbans = {}
    /\ isActive = FALSE
    /\ populatorIntervalId = 0
    /\ timers = {}
    /\ pendingStarts = 0
    /\ lastCall = [op |-> "constructor", error |-> "none"]

NextP2P ==
    \/ HandleOutboundPeerConnect
    \/ HandleOutboundPeerConnectAbort
    \/ HandlePeerInfoUpdate
    \/ HandleBanPeer
    \/ HandleUnbanPeer
    \/ HandleDiscoveredPeer
    \/ HandleRemovePeer
    \/ HandleConnection

SpecP2P == InitP2P /\ [][NextP2P]_vars

\* the coordinator together with direct calls of its book
NextP2PBook == NextP2P \/ NextBook

SpecP2PBook == InitP2P /\ [][NextP2PBook]_vars

----------------------------------------------------------------------------
(* P2P._handleGetPeersRequest: the answer to the getPeersList procedure.    *)
(* A selected peer is [internalState, size]: whether it has an internal     *)
(* state and what advertiseAddress is in it, and the bytes of its           *)
(* serialized sanitized form.  A configuration value 0 is one not given.    *)

DEFAULT_WS_MAX_PAYLOAD == 1048576

DEFAULT_MAX_PEER_INFO_SIZE == 10240

Min2(a, b) == IF a <= b THEN a ELSE b

RECURSIVE SumOfSizes(_)
SumOfSizes(list) ==
    IF list = <<>> THEN 0 ELSE Head(list).size + SumOfSizes(Tail(list))

\* the bytes of JSON.stringify(list): the brackets, the entries, the commas
getByteSize(list) ==
    2 + SumOfSizes(list) + (IF Len(list) > 0 THEN Len(list) - 1 ELSE 0)

\* Array.prototype.slice(0, end)
slice0(list, end) ==
    LET to == IF end < 0 THEN Max2(Len(list) + end, 0) ELSE Min2(end, Len(list))
    IN  SubSeq(list, 1, to)

isAdvertised(peer) == ~(peer.internalState = "private")

handleGetPeersRequest(config, selectedPeers) ==
    LET wsMaxPayload == IF config.wsMaxPayload # 0 THEN config.wsMaxPayload
                        ELSE DEFAULT_WS_MAX_PAYLOAD
        maxPeerInforSize == IF config.maxPeerInfoSize # 0
                            THEN config.maxPeerInfoSize
                            ELSE DEFAULT_MAX_PEER_INFO_SIZE
        safeMaxPeerInfoLength ==
            (DEFAULT_WS_MAX_PAYLOAD \div maxPeerInforSize) - 1
        sanitizedPeerInfoList == SelectSeq(selectedPeers, isAdvertised)
    IN  IF getByteSize(sanitizedPeerInfoList) < wsMaxPayload
        THEN sanitizedPeerInfoList
        ELSE slice0(sanitizedPeerInfoList, safeMaxPeerInfoLength)

PeerListConfigs ==
    [wsMaxPayload : {0} \cup {DEFAULT_WS_MAX_PAYLOAD \div d :
                                d \in 1..MaxPayloadDivisor},
     maxPeerInfoSize : {0} \cup {DEFAULT_WS_MAX_PAYLOAD \div d :
                                   d \in 2..MaxInfoSizeDivisor}]

\* the peers getRandomizedPeerList can select under a configuration: none is
\* larger than maxPeerInfoSize
SelectedPeers(config) ==
    LET maxPeerInfoSize == IF config.maxPeerInfoSize # 0
                           THEN config.maxPeerInfoSize
                           ELSE DEFAULT_MAX_PEER_INFO_SIZE
        entries == [internalState : {"none", "advertised", "private"},
                    size : {(maxPeerInfoSize * k) \div MaxEntryParts :
                              k \in 1..MaxEntryParts}]
    IN  UNION {[1..n -> entries] : n \in 0..MaxSelected}

InitPeersList ==
    /\ FMIdle
    /\ P2PIdle
    /\ ControllerIdle
    /\ \E config \in PeerListConfigs :
           \E selectedPeers \in SelectedPeers(config) :
               lastCall = [op |-> "request", config |-> config,
                           selectedPeers |-> selectedPeers]

\* the request of the getPeersList procedure is answered
HandleGetPeersRequest ==
    /\ lastCall.op = "request"
    /\ lastCall' = [op |-> "handleGetPeersRequest", config |-> lastCall.config,
                    selectedPeers |-> lastCall.selectedPeers,
                    peers |-> handleGetPeersRequest(lastCall.config,
                                                    lastCall.selectedPeers)]
    /\ UNCHANGED <<fmVars, p2pVars, ctlVars>>

NextPeersList == HandleGetPeersRequest

SpecPeersList == InitPeersList /\ [][NextPeersList]_vars

(***************************************************************************)
(* The peers the coordinator shows: getConnectedPeers, getDisconnectedPeers *)
(* and the response of getPeersList, with nodes that connect without        *)
(* advertising their address.                                               *)
(***************************************************************************)

\* PeerBook.allPeers
allPeers(bk) ==
    {bk.newPeers[id] : id \in DOMAIN bk.newPeers}
        \cup {bk.triedPeers[id].peerInfo : id \in DOMAIN bk.triedPeers}

\* the lists getRandomizedPeerList can return: peers of the book that
\* advertise their address, none twice, in any order
getRandomizedPeerList(bk) ==
    LET candidates == {peer \in allPeers(bk) : isAdvertised(peer)}
    IN  {list \in UNION {[1..n -> candidates] :
                           n \in 0..Cardinality(candidates)} :
            \A i, j \in DOMAIN list : i # j => list[i] # list[j]}

\* the peerIds getConnectedPeers returns
getConnectedPeers(pool) == {id \in DOMAIN pool : ~(pool[id] = "private")}

\* the peerIds getDisconnectedPeers returns
getDisconnectedPeers(bk, pool) ==
    LET connectedPeers == getConnectedPeers(pool)
        disconnectedPeers ==
            {peer \in allPeers(bk) : peer.peerId \notin connectedPeers}
    IN  {peer.peerId : peer \in {d \in disconnectedPeers : isAdvertised(d)}}

Shown(op, peers) ==
    /\ lastCall' = [op |-> op, peers |-> peers]
    /\ UNCHANGED <<fmVars, p2pVars, ctlVars>>

GetConnectedPeers == Shown("getConnectedPeers", getConnectedPeers(peerPool))

GetDisconnectedPeers ==
    Shown("getDisconnectedPeers", getDisconnectedPeers(Book, peerPool))

\* a getPeersList request of a peer is answered from the book, under the
\* default configuration and with peer infos of the largest size
GetPeersList ==
    \E selectedPeers \in getRandomizedPeerList(Book) :
        LET config == [wsMaxPayload |-> 0, maxPeerInfoSize |-> 0]
            sized == [i \in DOMAIN selectedPeers |->
                         [peerId |-> selectedPeers[i].peerId,
                          internalState |-> selectedPeers[i].internalState,
                          size |-> DEFAULT_MAX_PEER_INFO_SIZE]]
            peers == handleGetPeersRequest(config, sized)
        IN  Shown("getPeersList", {peers[i].peerId : i \in DOMAIN peers})

\* the peers the pool reports, of every internal state
AdvertisePeerInfos ==
    [peerId : PeerIds, sharedState : {1},
     internalState : {"none", "advertised", "private"}]

\* the peers other nodes tell of: they come without an internal state
DiscoveredPeerInfos ==
    [peerId : PeerIds, sharedState : {1}, internalState : {"none"}]

\* the sockets of nodes that advertise their address and of nodes that do not
AdvertiseSockets ==
    [id : PeerIds, infoId : PeerIds, protocolVersion : {1},
     advertiseAddress : BOOLEAN]

NextAdvertise ==
    \/ HandleOutboundPeerConnectOf(AdvertisePeerInfos)
    \/ HandleDiscoveredPeerOf(DiscoveredPeerInfos)
    \/ HandleConnectionOf(AdvertiseSockets)
    \/ HandleRemovePeer
    \/ GetConnectedPeers
    \/ GetDisconnectedPeers
    \/ GetPeersList

SpecAdvertise == InitP2P /\ [][NextAdvertise]_vars

(***************************************************************************)
(* start() and stop() of the coordinator, and its populator.               *)
(***************************************************************************)

\* the start() calls that can wait for the server at the same time
MaxPendingStarts == 1

\* setInterval: a timer id no timer has had
newIntervalId == SetMax(timers \cup {populatorIntervalId}) + 1

\* what a call of start() or stop() leaves, and how its promise settles
Settled(op, error) ==
    /\ lastCall' = [op |-> op, error |-> error]
    /\ UNCHANGED <<fmVars, newPeers, triedPeers, bannedPeers,
                   sanitizedPeerLists, pendingUnbans, ctlVars>>

\* start() is called: it rejects on an active node, else it waits for the
\* server to be ready
Start ==
    IF isActive
    THEN /\ Settled("start", "AlreadyActive")
         /\ UNCHANGED <<peerPool, hasConnected, lifeVars>>
    ELSE /\ pendingStarts < MaxPendingStarts
         /\ pendingStarts' = pendingStarts + 1
         /\ Settled("start", "pending")
         /\ UNCHANGED <<peerPool, hasConnected, isActive,
                        populatorIntervalId, timers>>

\* the server is ready: _startPeerServer sets _isActive and start() goes on
\* to _startPopulator, which throws when an interval id is stored
StartReady ==
    /\ pendingStarts > 0
    /\ pendingStarts' = pendingStarts - 1
    /\ isActive' = TRUE
    /\ IF populatorIntervalId # 0
       THEN /\ Settled("start", "PopulatorAlreadyRunning")
            /\ UNCHANGED <<populatorIntervalId, timers>>
       ELSE /\ populatorIntervalId' = newIntervalId
            /\ timers' = timers \cup {newIntervalId}
            /\ Settled("start", "none")
    /\ UNCHANGED <<peerPool, hasConnected>>

\* stop(): it rejects on a node that is not active; else it clears the
\* interval, empties the pool and closes the server
Stop ==
    IF ~isActive
    THEN /\ Settled("stop", "NotActive")
         /\ UNCHANGED <<peerPool, hasConnected, lifeVars>>
    ELSE /\ isActive' = FALSE
         /\ hasConnected' = FALSE
         /\ timers' = timers \ {populatorIntervalId}
         /\ peerPool' = EmptyMap
         /\ Settled("stop", "none")
         /\ UNCHANGED <<populatorIntervalId, pendingStarts>>

\* the interval of the populator fires
PopulatorTick ==
    /\ populatorIntervalId \in timers
    /\ Settled("triggerNewConnections", "none")
    /\ UNCHANGED <<peerPool, hasConnected, lifeVars>>

NextLifecycle ==
    \/ Start
    \/ StartReady
    \/ Stop
    \/ PopulatorTick
    \/ HandleOutboundPeerConnect
    \/ HandleRemovePeer

SpecLifecycle == InitP2P /\ [][NextLifecycle]_vars

(***************************************************************************)
(* The Controller: load() of the instances of one application label, each  *)
(* in a process of its own, on the pid file they share.                    *)
(***************************************************************************)

\* the Controller instances; instance i runs in the process with pid i
NumInstances == 2

\* at first the pid file is absent, or holds the pid of a process that has
\* ended, or the pid of a running process that is no Controller of the label
InitController ==
    LET DeadPid == NumInstances + 1
        OtherPid == NumInstances + 2
    IN  /\ FMIdle
        /\ P2PIdle
        /\ lastCall = [op |-> "constructor", error |-> "none"]
        /\ pidFile \in {0, DeadPid, OtherPid}
        /\ running = {OtherPid}
        /\ pc = [i \in 1..NumInstances |-> "new"]
        /\ pidRead = [i \in 1..NumInstances |-> 0]

\* one step of instance i, which leaves the files alone
Goto(i, from, to) ==
    /\ pc[i] = from
    /\ pc' = [pc EXCEPT ![i] = to]
    /\ UNCHANGED <<fmVars, lastCall, p2pVars>>

\* the process of instance i is started and calls load(): _setupDirectories
SetupDirectories(i) ==
    /\ Goto(i, "new", "pathExists")
    /\ running' = running \cup {i}
    /\ UNCHANGED <<pidFile, pidRead>>

\* _validatePidFile: await fs.pathExists(pidPath)
PathExists(i) ==
    /\ Goto(i, "pathExists", IF pidFile # 0 THEN "readFile" ELSE "writeFile")
    /\ UNCHANGED <<pidFile, running, pidRead>>

\* _validatePidFile: parseInt(await fs.readFile(pidPath))
ReadFile(i) ==
    /\ Goto(i, "readFile", "isPidRunning")
    /\ pidRead' = [pidRead EXCEPT ![i] = pidFile]
    /\ UNCHANGED <<pidFile, running>>

\* _validatePidFile: await isPidRunning(pid), throw DuplicateAppInstanceError
IsPidRunning(i) ==
    /\ Goto(i, "isPidRunning",
            IF pidRead[i] \in running THEN "DuplicateAppInstanceError"
            ELSE "writeFile")
    /\ UNCHANGED <<pidFile, running, pidRead>>

\* _validatePidFile: await fs.writeFile(pidPath, process.pid)
WriteFile(i) ==
    /\ Goto(i, "writeFile", "setupBus")
    /\ pidFile' = i
    /\ UNCHANGED <<running, pidRead>>

SetupBus(i) ==
    /\ Goto(i, "setupBus", "loadModules")
    /\ UNCHANGED <<pidFile, running, pidRead>>

LoadModules(i) ==
    /\ Goto(i, "loadModules", "ready")
    /\ UNCHANGED <<pidFile, running, pidRead>>

NextController ==
    \E i \in 1..NumInstances :
        \/ SetupDirectories(i)
        \/ PathExists(i)
        \/ ReadFile(i)
        \/ IsPidRunning(i)
        \/ WriteFile(i)
        \/ SetupBus(i)
        \/ LoadModules(i)

SpecController == InitController /\ [][NextController]_vars

----------------------------------------------------------------------------
(* Properties *)

AddCall == lastCall.op = "addBlockHeader"

RemoveCall == lastCall.op = "removeBlockHeaders"

\* C1: no addBlockHeader call lowers finalizedHeight, whatever finalizedHeight
\* the constructor was given
C1_FinalizedMonotonicOnAdd ==
    [][AddCall' => finalizedHeight' >= finalizedHeight]_vars

\* C2: removeBlockHeaders with its recompute never lowers finalizedHeight
C2_RemoveKeepsFinalized ==
    [][RemoveCall' => finalizedHeight' >= finalizedHeight]_vars

\* C3: an addBlockHeader call that fails leaves the header list, state,
\* preVotes, preCommits, chainMaxHeightPrevoted and finalizedHeight as they
\* were and emits no signal
C3_FailedAddIsAtomic ==
    [][(AddCall' /\ lastCall'.error # "none") =>
            /\ UNCHANGED <<headers, state, preVotes, preCommits,
                           chainMaxHeightPrevoted, finalizedHeight>>
            /\ emitted' = <<>>]_vars

C3_Witness ==
    /\ AddCall
    /\ lastCall.error = "BFTChainDisjointError"
    /\ Len(headers) > 0
    /\ DOMAIN preVotes # {}

\* C4: a verified header whose maxHeightPreviouslyForged is at least its
\* height is appended, and no entry of preVotes, preCommits or state changes
C4_EquivocatingHeaderCastsNothing ==
    [][(/\ AddCall'
        /\ lastCall'.error = "none"
        /\ headers' # <<>>
        /\ headers'[Len(headers')].maxHeightPreviouslyForged >=
               headers'[Len(headers')].height) =>
            /\ headers' = HeadersAdd(headers, headers'[Len(headers')])
            /\ UNCHANGED <<preVotes, preCommits, state>>]_vars

C4_Witness ==
    /\ AddCall
    /\ lastCall.error = "none"
    /\ Len(headers) >= 2
    /\ headers[Len(headers)].maxHeightPreviouslyForged >= headers[Len(headers)].height
    /\ DOMAIN preVotes # {}
    /\ DOMAIN state # {}

\* C5: chainMaxHeightPrevoted never exceeds the highest stored height
C5_PrevotedBelowTip == chainMaxHeightPrevoted <= maxHeight(headers)

C5_Witness ==
    /\ RemoveCall
    /\ Len(headers) > 0
    /\ chainMaxHeightPrevoted = maxHeight(headers)

\* C6: after removeBlockHeaders({aboveHeight: h}) neither preVotes nor
\* preCommits has an entry above h
C6_NoTallyAboveRemoved ==
    RemoveCall =>
        \A j \in (DOMAIN preVotes) \cup (DOMAIN preCommits) :
            j <= lastCall.aboveHeight

C6_Witness ==
    /\ RemoveCall
    /\ lastCall.aboveHeight < MaxHeight
    /\ lastCall.aboveHeight \in DOMAIN preVotes
    /\ DOMAIN preCommits # {}

ReAddCall == lastCall.op = "reAddLastHeader"

\* C7 as claimed: removing the header just added and adding it again ends
\* with the finalizedHeight and chainMaxHeightPrevoted of the single add,
\* also when the add evicted the oldest header
C7_ReAddReproduces ==
    [][ReAddCall' =>
            /\ finalizedHeight' = finalizedHeight
            /\ chainMaxHeightPrevoted' = chainMaxHeightPrevoted]_vars

Evicted == \E i \in 1..Len(log) : log[i] = "evict"

\* C7 amended: the same, when the add evicted no header
C7_ReAddReproducesUnlessEvicted ==
    [][(ReAddCall' /\ ~Evicted) =>
            /\ lastCall'.error = "none"
            /\ finalizedHeight' = finalizedHeight
            /\ chainMaxHeightPrevoted' = chainMaxHeightPrevoted]_vars

C7_Witness ==
    /\ ReAddCall
    /\ lastCall.error = "none"
    /\ Len(headers) = maxHeaders
    /\ ~Evicted
    /\ finalizedHeight > 0
    /\ chainMaxHeightPrevoted > finalizedHeight

\* C8: in the round-robin scenario every header is accepted, finalizedHeight
\* is at least 1 once header 2D is added and at least D once header 3D is
\* added
C8_RoundRobinFinalizes ==
    /\ lastCall.error = "none"
    /\ (maxHeight(headers) >= 2 * activeDelegates => finalizedHeight >= 1)
    /\ (maxHeight(headers) >= 3 * activeDelegates =>
            finalizedHeight >= activeDelegates)

C8_Witness ==
    /\ activeDelegates >= 3
    /\ lastCall.op = "addBlockHeader"
    /\ maxHeight(headers) = 3 * activeDelegates
    /\ finalizedHeight >= activeDelegates


\* C9: a mutating call emits FinalityChanged(n) exactly when it raises
\* finalizedHeight to n, once, after the append and the tally update
C9_SignalIffAdvanced ==
    [][(AddCall' \/ RemoveCall') =>
            /\ emitted' = IF finalizedHeight' > finalizedHeight
                          THEN <<finalizedHeight'>> ELSE <<>>
            /\ \A i \in 1..Len(log') :
                   log'[i] = "emit" =>
                       /\ \A k \in 1..Len(log') :
                              log'[k] \in {"append", "tally"} => k < i]_vars

\* C10: with processingThreshold headers stored, a schema-valid header whose
\* maxHeightPrevoted differs from chainMaxHeightPrevoted fails with
\* InvalidAttribute; with fewer headers stored no header fails with it
C10_InvalidAttributeRule ==
    \A h \in HeaderInputs(FM) :
        LET r == addBlockHeader(FM, h)
        IN  /\ (/\ validateBlockHeader(h)
                /\ Len(headers) >= processingThreshold
                /\ h.maxHeightPrevoted # chainMaxHeightPrevoted)
                   => r.error = "BFTInvalidAttributeError"
            /\ Len(headers) < processingThreshold
                   => r.error # "BFTInvalidAttributeError"

C10_Witness ==
    /\ AddCall
    /\ lastCall.error = "BFTInvalidAttributeError"
    /\ Len(headers) = processingThreshold

\* the tuple (maxHeightPreviouslyForged, maxHeightPrevoted, height) of a
\* header, and its ascending order
TupleOf(h) == <<h.maxHeightPreviouslyForged, h.maxHeightPrevoted, h.height>>

TupleBefore(a, b) ==
    \/ a[1] < b[1]
    \/ a[1] = b[1] /\ a[2] < b[2]
    \/ a[1] = b[1] /\ a[2] = b[2] /\ a[3] < b[3]

\* the positions, among the top processingThreshold stored headers, of the
\* headers forged by a delegate
OwnRecent(key) ==
    {i \in 1..Len(headers) : /\ i > Len(headers) - processingThreshold
                              /\ headers[i].delegatePublicKey = key}

\* the outcome the ordered cross-check prescribes for two headers
CrossCheck(stored, incoming) ==
    LET earlier == IF TupleBefore(TupleOf(incoming), TupleOf(stored))
                   THEN incoming ELSE stored
        later == IF TupleBefore(TupleOf(incoming), TupleOf(stored))
                 THEN stored ELSE incoming
    IN  CASE /\ earlier.maxHeightPrevoted = later.maxHeightPrevoted
             /\ earlier.height >= later.height -> "BFTForkChoiceRuleError"
          [] /\ ~(/\ earlier.maxHeightPrevoted = later.maxHeightPrevoted
                  /\ earlier.height >= later.height)
             /\ earlier.height > later.maxHeightPreviouslyForged
                 -> "BFTChainDisjointError"
          [] /\ ~(/\ earlier.maxHeightPrevoted = later.maxHeightPrevoted
                  /\ earlier.height >= later.height)
             /\ earlier.height <= later.maxHeightPreviouslyForged
             /\ earlier.maxHeightPrevoted > later.maxHeightPrevoted
                 -> "BFTLowerChainBranchError"
          [] OTHER -> "none"

\* C11: a schema-valid header that passes the maxHeightPrevoted check fails
\* with the first matching of ForkChoiceRule, ChainDisjoint, LowerChainBranch
\* on the pair (newest header of the same delegate among the top
\* processingThreshold headers, incoming header) ordered by ascending
\* (maxHeightPreviouslyForged, maxHeightPrevoted, height); it is accepted when
\* none matches or when the delegate has no such header
C11_OrderedCrossCheck ==
    \A h \in HeaderInputs(FM) :
        (/\ validateBlockHeader(h)
         /\ ~(/\ Len(headers) >= processingThreshold
              /\ h.maxHeightPrevoted # chainMaxHeightPrevoted))
        => LET own == OwnRecent(h.delegatePublicKey)
           IN  addBlockHeader(FM, h).error =
                   IF own = {} THEN "none"
                   ELSE CrossCheck(headers[SetMax(own)], h)

\* a header has just failed the last of the three rules, and headers of the
\* same delegate are stored
C11_Witness ==
    /\ AddCall
    /\ lastCall.error = "BFTLowerChainBranchError"
    /\ \E k \in Delegates : OwnRecent(k) # {}

\* the state of a delegate, a delegate without an entry counting as one that
\* has voted for nothing
DelegateStateOf(s, k) == IF k \in DOMAIN s THEN s[k] ELSE NewDelegateState

NotLowered(k) ==
    /\ DelegateStateOf(state', k).maxPreVoteHeight >=
           DelegateStateOf(state, k).maxPreVoteHeight
    /\ DelegateStateOf(state', k).maxPreCommitHeight >=
           DelegateStateOf(state, k).maxPreCommitHeight

\* C12 as stated: no call, addBlockHeader or removeBlockHeaders, lowers the
\* maxPreVoteHeight or the maxPreCommitHeight of any delegate
C12_DelegateHeightsNeverDecrease ==
    [][\A k \in Delegates : NotLowered(k)]_vars

\* C12 amended: no addBlockHeader call lowers the maxPreVoteHeight or the
\* maxPreCommitHeight of any delegate
C12_DelegateHeightsMonotonicOnAdd ==
    [][AddCall' => \A k \in Delegates : NotLowered(k)]_vars

\* a delegate with a recorded pre-commit has just forged a header that
\* pre-commits nothing new
C12_Witness ==
    /\ AddCall
    /\ lastCall.error = "none"
    /\ Len(headers) > 0
    /\ LET k == headers[Len(headers)].delegatePublicKey
       IN  /\ k \in DOMAIN state
           /\ state[k].maxPreVoteHeight = headers[Len(headers)].height
           /\ state[k].maxPreCommitHeight >= 1
           /\ state[k].maxPreCommitHeight < headers[Len(headers)].height - 1

ForkCall == lastCall.op = "forkChoice"

\* the rules of the fork choice, on the blocks of the last forkChoice call
SameHeightPrevotedPrevious ==
    /\ lastCall.block.height = lastCall.lastBlock.height
    /\ lastCall.block.maxHeightPrevoted = lastCall.lastBlock.maxHeightPrevoted
    /\ lastCall.block.previousBlockId = lastCall.lastBlock.previousBlockId

SameDelegate ==
    lastCall.block.generatorPublicKey = lastCall.lastBlock.generatorPublicKey

NewBlockNotLater ==
    lastCall.block.receivedAt - lastCall.block.timestamp <=
        lastCall.lastBlock.receivedAt - lastCall.lastBlock.timestamp

RuleIdentical == lastCall.block.id = lastCall.lastBlock.id

RuleValid ==
    /\ lastCall.block.previousBlockId = lastCall.lastBlock.id
    /\ lastCall.block.height = lastCall.lastBlock.height + 1

RuleDoubleForging == SameHeightPrevotedPrevious /\ SameDelegate

RuleTieBreak == SameHeightPrevotedPrevious /\ ~SameDelegate /\ NewBlockNotLater

RuleDifferentChain ==
    \/ lastCall.block.maxHeightPrevoted > lastCall.lastBlock.maxHeightPrevoted
    \/ /\ lastCall.block.height > lastCall.lastBlock.height
       /\ lastCall.block.maxHeightPrevoted = lastCall.lastBlock.maxHeightPrevoted

\* C13: forkChoice returns the status of the first rule that matches in the
\* order IDENTICAL, VALID, DOUBLE_FORGING, TIE_BREAK, DIFFERENT_CHAIN, and
\* DISCARD when none matches; equal ids give IDENTICAL whatever else matches,
\* and same height, maxHeightPrevoted, previousBlockId and delegate give
\* DOUBLE_FORGING, not TIE_BREAK
C13_FirstMatchingRule ==
    ForkCall =>
        /\ lastCall.result =
               CASE RuleIdentical -> "FORK_STATUS_IDENTICAL_BLOCK"
                 [] ~RuleIdentical /\ RuleValid -> "FORK_STATUS_VALID_BLOCK"
                 [] ~RuleIdentical /\ ~RuleValid /\ RuleDoubleForging
                        -> "FORK_STATUS_DOUBLE_FORGING"
                 [] ~RuleIdentical /\ ~RuleValid /\ ~RuleDoubleForging
                        /\ RuleTieBreak -> "FORK_STATUS_TIE_BREAK"
                 [] ~RuleIdentical /\ ~RuleValid /\ ~RuleDoubleForging
                        /\ ~RuleTieBreak /\ RuleDifferentChain
                        -> "FORK_STATUS_DIFFERENT_CHAIN"
                 [] OTHER -> "FORK_STATUS_DISCARD"
        /\ (RuleDoubleForging /\ ~RuleIdentical)
               => lastCall.result = "FORK_STATUS_DOUBLE_FORGING"

\* a double-forged block that was received no later than the tip: the tie
\* break would go to it
C13_Witness ==
    /\ ForkCall
    /\ lastCall.result = "FORK_STATUS_DOUBLE_FORGING"
    /\ NewBlockNotLater

\* the same block received again: every field matches the tip
C13_WitnessIdentical ==
    /\ ForkCall
    /\ lastCall.result = "FORK_STATUS_IDENTICAL_BLOCK"
    /\ RuleDoubleForging

\* C14: for a received block and a tip of the same height, maxHeightPrevoted
\* and previousBlockId forged by different delegates, forkChoice returns
\* TIE_BREAK exactly when the received block's receivedAt - timestamp is at
\* most the tip's
C14_TieBreakIffNotLater ==
    (ForkCall /\ SameHeightPrevotedPrevious /\ ~SameDelegate)
        => (lastCall.result = "FORK_STATUS_TIE_BREAK" <=> NewBlockNotLater)

\* the received block and the tip are equally late, and the received block wins
C14_Witness ==
    /\ ForkCall
    /\ SameHeightPrevotedPrevious
    /\ ~SameDelegate
    /\ lastCall.block.receivedAt - lastCall.block.timestamp =
           lastCall.lastBlock.receivedAt - lastCall.lastBlock.timestamp
    /\ lastCall.block.timestamp # lastCall.lastBlock.timestamp
    /\ lastCall.result = "FORK_STATUS_TIE_BREAK"

\* the received block is later than the tip and does not displace it
C14_WitnessLater ==
    /\ ForkCall
    /\ SameHeightPrevotedPrevious
    /\ ~SameDelegate
    /\ ~NewBlockNotLater
    /\ lastCall.result = "FORK_STATUS_DISCARD"

QueryCall == lastCall.op = "isBFTProtocolCompliant"

\* the distance of the checked block to the block it claims to have forged
ClaimedDistance == lastCall.block.height - lastCall.block.maxHeightPreviouslyForged

\* the header stored at the claimed height was forged by another delegate
ForgedByOther ==
    \E i \in 1..Len(headers) :
        /\ headers[i].height = lastCall.block.maxHeightPreviouslyForged
        /\ headers[i].delegatePublicKey # lastCall.block.generatorPublicKey

\* C15 as stated: isBFTProtocolCompliant returns false exactly when
\* maxHeightPreviouslyForged >= height, or when height -
\* maxHeightPreviouslyForged <= processingThreshold + 2 and the header stored
\* at maxHeightPreviouslyForged was forged by another delegate
C15_FalseWithinThresholdPlusTwo ==
    QueryCall =>
        (lastCall.result = FALSE <=>
            \/ lastCall.block.maxHeightPreviouslyForged >= lastCall.block.height
            \/ ClaimedDistance <= processingThreshold + 2 /\ ForgedByOther)

\* C15 amended: the same with the distance bounded by processingThreshold + 1,
\* which is three rounds
C15_FalseWithinThreeRounds ==
    QueryCall =>
        (lastCall.result = FALSE <=>
            \/ lastCall.block.maxHeightPreviouslyForged >= lastCall.block.height
            \/ ClaimedDistance <= processingThreshold + 1 /\ ForgedByOther)

\* a block exactly three rounds above a block of another delegate is rejected
C15_Witness ==
    /\ QueryCall
    /\ ForgedByOther
    /\ ClaimedDistance = processingThreshold + 1
    /\ lastCall.result = FALSE

\* C16: when the header at maxHeightPreviouslyForged was forged by another
\* delegate, isBFTProtocolCompliant returns false if height -
\* maxHeightPreviouslyForged is at most 3D and true if it is greater; it
\* returns true whenever maxHeightPreviouslyForged is 0
C16_ThreeRoundsLookBack ==
    QueryCall =>
        /\ ForgedByOther =>
               (lastCall.result = (ClaimedDistance > 3 * activeDelegates))
        /\ lastCall.block.maxHeightPreviouslyForged = 0 => lastCall.result = TRUE

\* a block one height more than three rounds above a block of another
\* delegate is accepted
C16_Witness ==
    /\ QueryCall
    /\ ForgedByOther
    /\ ClaimedDistance = 3 * activeDelegates + 1
    /\ lastCall.result = TRUE

\* a block that claims no previously forged block is accepted
C16_WitnessZero ==
    /\ QueryCall
    /\ lastCall.block.maxHeightPreviouslyForged = 0
    /\ Len(headers) > 0
    /\ lastCall.result = TRUE

DeleteCall == lastCall.op = "deleteBlocks"

\* C17: deleteBlocks fails and removes no header when a block of the list is
\* at or below the finalized height of the moment of the call; no call of
\* it removes a header at or below that height
C17_NoDeleteAtOrBelowFinalized ==
    [][DeleteCall' =>
          /\ (\E h \in lastCall'.blockHeights : h <= finalizedHeight)
                 => (lastCall'.error # "none" /\ headers' = headers)
          /\ \A i \in 1..Len(headers) :
                 headers[i].height <= finalizedHeight
                     => \E j \in 1..Len(headers') : headers'[j] = headers[i]]_vars

\* a list with a stored block at the finalized height and a stored block
\* above it has just been rejected
C17_Witness ==
    /\ DeleteCall
    /\ lastCall.error # "none"
    /\ finalizedHeight >= 1
    /\ finalizedHeight \in lastCall.blockHeights
    /\ \E h \in lastCall.blockHeights : h > finalizedHeight
    /\ \A h \in lastCall.blockHeights : HeadersGet(headers, h) # NoHeader

\* a list of blocks above the finalized height has just been deleted
C17_WitnessDeleted ==
    /\ DeleteCall
    /\ lastCall.error = "none"
    /\ finalizedHeight >= 1
    /\ Len(headers) > 0
    /\ maxHeight(headers) = SetMin(lastCall.blockHeights) - 1

DowngradeCall == lastCall.op = "downgradePeer"

InNew(id) == id \in DOMAIN newPeers

InTried(id) == id \in DOMAIN triedPeers

\* C19: downgradePeer keeps a tried peer in the tried table on its 1st and
\* 2nd failure and returns false, moves it to the new table on the 3rd,
\* removes a new peer from the book and returns true (the 4th failure of a
\* tried peer), and returns false without changing the book for an absent peer
C19_DowngradeLifecycle ==
    [][DowngradeCall' =>
          LET id == lastCall'.peerInfo.peerId
          IN  /\ (InTried(id) /\ triedPeers[id].numOfConnectionFailures < 2)
                     => /\ id \in DOMAIN triedPeers'
                        /\ id \notin DOMAIN newPeers'
                        /\ lastCall'.result = FALSE
              /\ (InTried(id) /\ triedPeers[id].numOfConnectionFailures = 2)
                     => /\ id \in DOMAIN newPeers'
                        /\ id \notin DOMAIN triedPeers'
              /\ (InNew(id) /\ ~InTried(id))
                     => /\ id \notin DOMAIN newPeers'
                        /\ id \notin DOMAIN triedPeers'
                        /\ lastCall'.result = TRUE
              /\ (~InNew(id) /\ ~InTried(id))
                     => /\ lastCall'.result = FALSE
                        /\ UNCHANGED <<newPeers, triedPeers>>]_vars

\* a downgrade has just moved a tried peer back to the new table
C19_Witness ==
    /\ DowngradeCall
    /\ InNew(lastCall.peerInfo.peerId)
    /\ ~InTried(lastCall.peerInfo.peerId)

(* C18: whatever book calls and coordinator events have happened, every   *)
(* peerId is in the new table, in the tried table or absent, never in both *)
(* tables, and every entry of a table is stored under its own peerId, so   *)
(* that no peer is twice in a table.                                       *)
C18_PeerInAtMostOneTable ==
    /\ \A id \in PeerIds : ~(InNew(id) /\ InTried(id))
    /\ DOMAIN newPeers \subseteq PeerIds
    /\ DOMAIN triedPeers \subseteq PeerIds
    /\ \A id \in DOMAIN newPeers : newPeers[id].peerId = id
    /\ \A id \in DOMAIN triedPeers : triedPeers[id].peerInfo.peerId = id

\* an outbound connection to a peer has put it into the tried table while
\* another peer is in the new table
C18_Witness ==
    /\ lastCall.op = "handleOutboundPeerConnect"
    /\ InTried(lastCall.peerInfo.peerId)
    /\ \E id \in PeerIds \ {lastCall.peerInfo.peerId} : InNew(id)

\* a downgradePeer call has moved a tried peer back to the new table
C18_WitnessMovedBack ==
    /\ DowngradeCall
    /\ lastCall.result = FALSE
    /\ InNew(lastCall.peerInfo.peerId)

AddPeerCall == lastCall.op = "addPeer"

(* C20: addPeer(p) of a peer absent from both tables places p in the new    *)
(* table; addPeer(p) of a peer present in the new or in the tried table     *)
(* fails with ExistingPeerError, the error carries the PeerInfo the book    *)
(* holds for p, and both tables are left unchanged.                         *)
C20_AddPeerOrExistingPeerError ==
    [][AddPeerCall' =>
          LET p == lastCall'.peerInfo
              id == p.peerId
          IN  /\ (~InNew(id) /\ ~InTried(id))
                     => /\ lastCall'.error = "none"
                        /\ id \in DOMAIN newPeers'
                        /\ newPeers'[id] = p
                        /\ id \notin DOMAIN triedPeers'
              /\ (InNew(id) \/ InTried(id))
                     => /\ lastCall'.error = "ExistingPeerError"
                        /\ lastCall'.thrown = getPeer(Book, p)
                        /\ UNCHANGED <<newPeers, triedPeers>>]_vars

\* addPeer of a tried peer threw the stored PeerInfo, which differs from the
\* PeerInfo that was passed
C20_Witness ==
    /\ AddPeerCall
    /\ lastCall.error = "ExistingPeerError"
    /\ InTried(lastCall.peerInfo.peerId)
    /\ lastCall.thrown # lastCall.peerInfo
    /\ lastCall.thrown = triedPeers[lastCall.peerInfo.peerId].peerInfo

\* addPeer of an absent peer put it into the new table
C20_WitnessAdded ==
    /\ AddPeerCall
    /\ lastCall.error = "none"
    /\ InNew(lastCall.peerInfo.peerId)
    /\ newPeers[lastCall.peerInfo.peerId] = lastCall.peerInfo

UpgradeCall == lastCall.op = "upgradePeer"

(* C21: upgradePeer(p) moves a new peer to the tried table and returns     *)
(* true, leaves a tried peer in the tried table and returns true, and      *)
(* returns false and leaves the book unchanged for an absent peer; applied *)
(* once more it returns the same and leaves both tables as they are.       *)
C21_UpgradePeerIdempotent ==
    [][UpgradeCall' =>
          LET p == lastCall'.peerInfo
              id == p.peerId
              after == [newPeers |-> newPeers', triedPeers |-> triedPeers']
          IN  /\ (InNew(id) /\ ~InTried(id))
                     => /\ lastCall'.result = TRUE
                        /\ id \in DOMAIN triedPeers'
                        /\ id \notin DOMAIN newPeers'
              /\ InTried(id)
                     => /\ lastCall'.result = TRUE
                        /\ id \in DOMAIN triedPeers'
                        /\ id \notin DOMAIN newPeers'
              /\ (~InNew(id) /\ ~InTried(id))
                     => /\ lastCall'.result = FALSE
                        /\ UNCHANGED <<newPeers, triedPeers>>
              /\ \A again \in upgradePeer(after, p) :
                     /\ again.result = lastCall'.result
                     /\ DOMAIN again.bk.newPeers = DOMAIN newPeers'
                     /\ DOMAIN again.bk.triedPeers = DOMAIN triedPeers']_vars

\* upgradePeer was applied to a peer that a former upgradePeer had moved to
\* the tried table, where it has failed to connect since
C21_Witness ==
    /\ UpgradeCall
    /\ lastCall.result = TRUE
    /\ InTried(lastCall.peerInfo.peerId)
    /\ triedPeers[lastCall.peerInfo.peerId].numOfConnectionFailures > 0

\* upgradePeer has moved a peer to the tried table
C21_WitnessMoved ==
    /\ UpgradeCall
    /\ lastCall.result = TRUE
    /\ InTried(lastCall.peerInfo.peerId)
    /\ triedPeers[lastCall.peerInfo.peerId].numOfConnectionFailures = 0
    /\ triedPeers[lastCall.peerInfo.peerId].peerInfo = lastCall.peerInfo

AbortCall == lastCall.op = "handleOutboundPeerConnectAbort"

\* the entry the book holds for a peer: its table, its PeerInfo, its failures
BookEntry(bk, id) ==
    IF id \in DOMAIN bk.triedPeers
    THEN [table |-> "tried", peerInfo |-> bk.triedPeers[id].peerInfo,
          failures |-> bk.triedPeers[id].numOfConnectionFailures]
    ELSE IF id \in DOMAIN bk.newPeers
         THEN [table |-> "new", peerInfo |-> bk.newPeers[id], failures |-> 0]
         ELSE [table |-> "absent", peerInfo |-> NoPeer, failures |-> 0]

BookAfter == [newPeers |-> newPeers', triedPeers |-> triedPeers']

(* C22: an OutboundConnectAbort event for a whitelisted peer or for a fixed *)
(* peer leaves the entry of that peer in the book as it was: the peer is    *)
(* neither downgraded nor removed.                                          *)
C22_TrustedPeerNotDowngraded ==
    [][AbortCall' =>
          LET id == lastCall'.peerInfo.peerId
          IN  (id \in sanitizedPeerLists.whitelisted
                         \cup sanitizedPeerLists.fixedPeers)
                  => BookEntry(BookAfter, id) = BookEntry(Book, id)]_vars

\* the half of C22 that is about whitelisted peers
C22_WhitelistedPeerNotDowngraded ==
    [][AbortCall' =>
          LET id == lastCall'.peerInfo.peerId
          IN  (id \in sanitizedPeerLists.whitelisted)
                  => BookEntry(BookAfter, id) = BookEntry(Book, id)]_vars

ConnectionCall == lastCall.op = "handleConnection"

\* the events a handler has emitted
EventsOf(call) == {call.events[i] : i \in 1..Len(call.events)}

(* C23: an inbound socket of a peer whose IP address is banned and that is *)
(* not whitelisted is rejected: the pool, the new table and the tried      *)
(* table stay as they were and NewInboundPeer is not emitted.              *)
C23_BannedInboundRejected ==
    [][ConnectionCall' =>
          LET id == lastCall'.peerInfo.peerId
          IN  (/\ ipAddress(id) \in bannedPeers
               /\ id \notin sanitizedPeerLists.whitelisted)
                  => /\ UNCHANGED <<peerPool, newPeers, triedPeers>>
                     /\ "EVENT_NEW_INBOUND_PEER" \notin EventsOf(lastCall')]_vars

(* C24: an inbound socket whose peerId belongs to a peer of the pool is    *)
(* rejected: FailedToAddInboundPeer is emitted, NewInboundPeer is not, and *)
(* the pool, the new table and the tried table stay as they were.          *)
C24_DuplicateInboundChangesNothing ==
    [][ConnectionCall' =>
          LET id == lastCall'.peerInfo.peerId
          IN  (id \in DOMAIN peerPool)
                  => /\ EventsOf(lastCall') = {"EVENT_FAILED_TO_ADD_INBOUND_PEER"}
                     /\ UNCHANGED <<peerPool, newPeers, triedPeers>>]_vars

\* the part of C24 that is about a socket the coordinator has rejected
C24_RejectedInboundChangesNothing ==
    [][(ConnectionCall'
           /\ "EVENT_FAILED_TO_ADD_INBOUND_PEER" \in EventsOf(lastCall'))
          => UNCHANGED <<peerPool, newPeers, triedPeers>>]_vars

BanCall == lastCall.op = "handleBanPeer"

(* C25: after a BanPeer(peerId) event the IP address of peerId is banned;  *)
(* a peer that is not whitelisted is absent from the book, the entry of a  *)
(* whitelisted peer is as it was; BanPeer is emitted again in both cases.  *)
C25_BanRemovesUnlessWhitelisted ==
    [][BanCall' =>
          LET id == lastCall'.peerInfo.peerId
          IN  /\ ipAddress(id) \in bannedPeers'
              /\ "EVENT_BAN_PEER" \in EventsOf(lastCall')
              /\ (id \notin sanitizedPeerLists.whitelisted)
                     => BookEntry(BookAfter, id).table = "absent"
              /\ (id \in sanitizedPeerLists.whitelisted)
                     => UNCHANGED <<newPeers, triedPeers>>]_vars

\* a whitelisted peer of the tried table was banned and is still there
C25_Witness ==
    /\ BanCall
    /\ lastCall.peerInfo.peerId \in sanitizedPeerLists.whitelisted
    /\ InTried(lastCall.peerInfo.peerId)
    /\ ipAddress(lastCall.peerInfo.peerId) \in bannedPeers

\* a peer that is not whitelisted was banned while the other peer, of the
\* same address, stays in the book
C25_WitnessRemoved ==
    /\ BanCall
    /\ lastCall.peerInfo.peerId \notin sanitizedPeerLists.whitelisted
    /\ ~InNew(lastCall.peerInfo.peerId)
    /\ ~InTried(lastCall.peerInfo.peerId)
    /\ \E id \in PeerIds : InTried(id) /\ ipAddress(id) \in bannedPeers

(* C26: from the BanPeer event of a peer until the UnbanPeer event of     *)
(* that same peer the IP address of the peer is banned, whatever BanPeer   *)
(* and UnbanPeer events of other peers, of the same address or not, come   *)
(* in between.                                                             *)
C26_BannedUntilOwnUnban ==
    \A peerId \in pendingUnbans : ipAddress(peerId) \in bannedPeers

PeersListCall == lastCall.op = "handleGetPeersRequest"

\* the configured value, or the default when none is configured
Configured(value, default) == IF value # 0 THEN value ELSE default

(* C27: the getPeersList response is the whole sanitised sample when the   *)
(* sample serializes to fewer bytes than the configured wsMaxPayload, and  *)
(* otherwise its first floor(wsMaxPayload / maxPeerInfoSize) - 1 entries,  *)
(* both taken from the configuration.                                      *)
C27_ResponseTrimmedToConfiguredPayload ==
    PeersListCall =>
        LET wsMaxPayload == Configured(lastCall.config.wsMaxPayload,
                                       DEFAULT_WS_MAX_PAYLOAD)
            maxPeerInfoSize == Configured(lastCall.config.maxPeerInfoSize,
                                          DEFAULT_MAX_PEER_INFO_SIZE)
            sample == SelectSeq(lastCall.selectedPeers, isAdvertised)
            safeLength == (wsMaxPayload \div maxPeerInfoSize) - 1
        IN  IF getByteSize(sample) < wsMaxPayload
            THEN lastCall.peers = sample
            ELSE lastCall.peers = SubSeq(sample, 1, Min2(safeLength, Len(sample)))

ConnectCall == lastCall.op = "handleOutboundPeerConnect"

(* C29: after an OutboundConnect event for a peer, the peer is in the      *)
(* tried table and not in the new table, whether it was absent, new or     *)
(* tried before; the handler completes and emits the event again, the      *)
(* ExistingPeerError of addPeer being recovered by upgrading the entry.    *)
C29_ConnectedPeerIsTried ==
    [][ConnectCall' =>
          LET id == lastCall'.peerInfo.peerId
          IN  /\ id \in DOMAIN triedPeers'
              /\ id \notin DOMAIN newPeers'
              /\ triedPeers'[id].peerInfo.peerId = id
              /\ "EVENT_CONNECT_OUTBOUND" \in EventsOf(lastCall')]_vars

\* the peer was in the tried table before the event: it has failed to
\* connect since it was upgraded
C29_Witness ==
    /\ ConnectCall
    /\ InTried(lastCall.peerInfo.peerId)
    /\ triedPeers[lastCall.peerInfo.peerId].numOfConnectionFailures > 0

\* the peer was in the new table before the event, with another shared
\* state, or absent
C29_WitnessUpgraded ==
    /\ ConnectCall
    /\ InTried(lastCall.peerInfo.peerId)
    /\ triedPeers[lastCall.peerInfo.peerId].numOfConnectionFailures = 0
    /\ triedPeers[lastCall.peerInfo.peerId].peerInfo = lastCall.peerInfo

ConstructorCall == lastCall.op = "constructor"

ListedPeers == {newPeersToAdd[i] : i \in 1..Len(newPeersToAdd)}

ShownCall ==
    lastCall.op \in {"getConnectedPeers", "getDisconnectedPeers", "getPeersList"}

NotAdvertising(id) ==
    IF id \in DOMAIN peerPool
    THEN peerPool[id] = "private"
    ELSE getPeer(Book, PeerOfId(id)).internalState = "private"

C28_PrivatePeerNeverShown ==
    ShownCall => \A id \in lastCall.peers : ~NotAdvertising(id)

\* each entry is judged by its own internalState
C28_PrivateEntryNeverShown ==
    /\ lastCall.op = "getConnectedPeers"
           => \A id \in lastCall.peers : peerPool[id] # "private"
    /\ lastCall.op \in {"getDisconnectedPeers", "getPeersList"}
           => \A id \in lastCall.peers :
                  getPeer(Book, PeerOfId(id)).internalState # "private"

(***************************************************************************)
(* C31: start() on an active node and stop() on a node that is not active  *)
(* reject and change nothing of the coordinator; isActive becomes true     *)
(* only when a start() completes with success and becomes false only by a  *)
(* stop().                                                                 *)
(***************************************************************************)
StartSettles == lastCall'.op = "start" /\ lastCall'.error # "pending"

C31_RejectionsChangeNothing ==
    [][/\ (isActive /\ lastCall'.op = "start")
           => lastCall'.error = "AlreadyActive" /\ UNCHANGED p2pVars
       /\ (~isActive /\ lastCall'.op = "stop")
           => lastCall'.error = "NotActive" /\ UNCHANGED p2pVars]_vars

C31_StartStopAndIsActive ==
    [][/\ (isActive /\ lastCall'.op = "start")
           => lastCall'.error = "AlreadyActive" /\ UNCHANGED p2pVars
       /\ (~isActive /\ lastCall'.op = "stop")
           => lastCall'.error = "NotActive" /\ UNCHANGED p2pVars
       /\ (~isActive /\ isActive')
           => StartSettles /\ lastCall'.error = "none"
       /\ (StartSettles /\ lastCall'.error = "none") => isActive'
       /\ (isActive /\ ~isActive')
           => lastCall'.op = "stop" /\ lastCall'.error = "none"]_vars

(***************************************************************************)
(* C38: a start() that completes on a node which was started and stopped   *)
(* before succeeds and leaves the node active with a running populator,    *)
(* and never more than one populator timer is set.                         *)
(***************************************************************************)
C38_RestartRunsPopulator ==
    [][/\ (StartSettles /\ ~isActive /\ populatorIntervalId # 0)
           => /\ lastCall'.error = "none"
              /\ isActive'
              /\ populatorIntervalId' \in timers'
       /\ Cardinality(timers') <= 1]_vars

(***************************************************************************)
(* C39: a discovered peer that is blacklisted leaves the book as it was;   *)
(* EVENT_DISCOVERED_PEER is emitted only when the peer was in neither      *)
(* table and is in the new table after the event; for a discovered peer    *)
(* that is in the book nothing is emitted and both tables keep their       *)
(* members.                                                                *)
(***************************************************************************)
DiscoveredCall == lastCall.op = "handleDiscoveredPeer"

C39_DiscoveryAddsOnlyAbsentNotBlacklisted ==
    [][DiscoveredCall' =>
          LET id == lastCall'.peerInfo.peerId
          IN  /\ id \in sanitizedPeerLists.blacklistedPeers
                  => UNCHANGED <<newPeers, triedPeers>>
              /\ "EVENT_DISCOVERED_PEER" \in EventsOf(lastCall')
                  => /\ ~InNew(id) /\ ~InTried(id)
                     /\ id \in DOMAIN newPeers'
              /\ (InNew(id) \/ InTried(id))
                  => /\ EventsOf(lastCall') = {}
                     /\ DOMAIN newPeers' = DOMAIN newPeers
                     /\ DOMAIN triedPeers' = DOMAIN triedPeers]_vars

\* a peer is discovered for the first time
C39_Witness ==
    /\ DiscoveredCall
    /\ "EVENT_DISCOVERED_PEER" \in EventsOf(lastCall)
    /\ InNew(lastCall.peerInfo.peerId)

\* a blacklisted peer is discovered
C39_WitnessBlacklisted ==
    /\ DiscoveredCall
    /\ lastCall.peerInfo.peerId \in sanitizedPeerLists.blacklistedPeers
    /\ EventsOf(lastCall) = {}

(***************************************************************************)
(* C40: at most one Controller instance of a label is past the pid-file    *)
(* check, also when the instances run load() at the same time; an instance *)
(* that read the pid of a running process from the pid file fails with     *)
(* DuplicateAppInstanceError and never sets up its bus or loads a module.  *)
(***************************************************************************)
PastPidFile == {"setupBus", "loadModules", "ready"}

C40_OneInstancePastPidFile ==
    /\ Cardinality({i \in DOMAIN pc : pc[i] \in PastPidFile}) <= 1
    /\ \A i \in DOMAIN pc :
           (pidRead[i] \in running) => pc[i] \notin PastPidFile \cup {"writeFile"}

\* what holds of load(): the instance that read the pid of a running process
\* does not go on
C40_RunningPidStopsLoad ==
    \A i \in DOMAIN pc :
        (pidRead[i] \in running) => pc[i] \notin PastPidFile \cup {"writeFile"}

(***************************************************************************)
(* C32: the header that addBlockHeader tallies pre-commits a height only   *)
(* when the pre-votes of that height had reached preVoteThreshold before   *)
(* the call: the pre-vote the header itself casts never enables its own    *)
(* pre-commit.                                                             *)
(***************************************************************************)
AddedCall == lastCall.op = "addBlockHeader" /\ lastCall.error = "none"

C32_PreCommitsBeforeOwnPreVotes ==
    [][AddedCall' =>
          \A j \in DOMAIN preCommits' :
              preCommits'[j] > GetOr0(preCommits, j)
                  => GetOr0(preVotes, j) >= preVoteThreshold]_vars

\* the header that was added has pre-committed the height below its own,
\* which no earlier header of its delegate can have done
C32_Witness ==
    /\ AddedCall
    /\ LET h == headers[Len(headers)]
       IN  /\ h.delegatePublicKey \in DOMAIN state
           /\ state[h.delegatePublicKey].maxPreCommitHeight = h.height - 1
           /\ h.height > 1

(***************************************************************************)
(* C33: the header that addBlockHeader tallies raises the pre-votes only   *)
(* of heights in [height - processingThreshold, height] and the            *)
(* pre-commits only of heights in [height - processingThreshold,           *)
(* height - 1], and of no height below its delegateMinHeightActive.        *)
(***************************************************************************)
C33_TalliesWithinWindow ==
    [][AddedCall' =>
          LET h == headers'[Len(headers')]
              low == Max2(h.height - processingThreshold,
                          h.delegateMinHeightActive)
          IN  /\ \A j \in DOMAIN preVotes' :
                     preVotes'[j] > GetOr0(preVotes, j)
                         => j \in low..h.height
              /\ \A j \in DOMAIN preCommits' :
                     preCommits'[j] > GetOr0(preCommits, j)
                         => j \in low..(h.height - 1)]_vars

\* the only stored header of a delegate has pre-voted down to the end of
\* its window, which is above the heights its other attributes allow
C33_Witness ==
    /\ AddedCall
    /\ LET h == headers[Len(headers)]
       IN  /\ \A i \in 1..(Len(headers) - 1) :
                  headers[i].delegatePublicKey # h.delegatePublicKey
           /\ h.height - processingThreshold
                  > Max2(h.delegateMinHeightActive,
                         h.maxHeightPreviouslyForged + 1)
           /\ GetOr0(preVotes, h.height - processingThreshold) >= 1
           /\ minHeight(headers) < h.height - processingThreshold

\* the header pre-votes from its delegateMinHeightActive, which lies inside
\* the window
C33_WitnessMinActive ==
    /\ AddedCall
    /\ LET h == headers[Len(headers)]
       IN  /\ \A i \in 1..(Len(headers) - 1) :
                  headers[i].delegatePublicKey # h.delegatePublicKey
           /\ h.delegateMinHeightActive > h.height - processingThreshold
           /\ h.delegateMinHeightActive > h.maxHeightPreviouslyForged + 1
           /\ h.delegateMinHeightActive <= h.height
           /\ GetOr0(preVotes, h.delegateMinHeightActive) >= 1
           /\ GetOr0(preCommits, h.delegateMinHeightActive - 1) >= 1

(***************************************************************************)
(* C34: after every addBlockHeader and removeBlockHeaders the pre-votes    *)
(* and the pre-commits hold at most maxHeaders heights each, and a height  *)
(* that addBlockHeader dropped from a tally is below every height the      *)
(* tally kept.                                                             *)
(***************************************************************************)
\* the heights of the tallies when addBlockHeader reaches its cleanup
UntrimmedPreVotes(h) ==
    (DOMAIN preVotes)
        \cup (IF h.maxHeightPreviouslyForged >= h.height THEN {}
              ELSE PreVoteHeights(FM, h))

UntrimmedPreCommits(h) ==
    (DOMAIN preCommits)
        \cup (IF h.maxHeightPreviouslyForged >= h.height THEN {}
              ELSE PreCommitHeights([FM EXCEPT !.headers = headers'], h))

C34_TalliesTrimmedToHighest ==
    [][/\ Cardinality(DOMAIN preVotes') <= maxHeaders
       /\ Cardinality(DOMAIN preCommits') <= maxHeaders
       /\ AddedCall' =>
            LET h == headers'[Len(headers')]
            IN  /\ DOMAIN preVotes' \subseteq UntrimmedPreVotes(h)
                /\ \A k \in UntrimmedPreVotes(h) \ DOMAIN preVotes' :
                       /\ Cardinality(DOMAIN preVotes') = maxHeaders
                       /\ \A j \in DOMAIN preVotes' : k < j
                /\ DOMAIN preCommits' \subseteq UntrimmedPreCommits(h)
                /\ \A k \in UntrimmedPreCommits(h) \ DOMAIN preCommits' :
                       /\ Cardinality(DOMAIN preCommits') = maxHeaders
                       /\ \A j \in DOMAIN preCommits' : k < j]_vars

\* the full list was recomputed: its first header, at height 2, has
\* pre-voted height 1, which the cleanup has dropped from the full tally
C34_Witness ==
    /\ lastCall.op = "removeBlockHeaders"
    /\ Len(headers) = maxHeaders
    /\ headers[1].height = 2
    /\ headers[1].maxHeightPreviouslyForged = 0
    /\ Cardinality(DOMAIN preVotes) = maxHeaders
    /\ 1 \notin DOMAIN preVotes

\* a header was added to a full list and the tally has lost height 1
C34_WitnessAdded ==
    /\ AddedCall
    /\ maxHeight(headers) = maxHeaders + 1
    /\ headers[1].maxHeightPreviouslyForged = 0
    /\ Cardinality(DOMAIN preVotes) = maxHeaders
    /\ 1 \notin DOMAIN preVotes

(***************************************************************************)
(* C35: a header that is added raises a tally by one at most, and only at  *)
(* heights above those its delegate has pre-voted (pre-committed) since    *)
(* the last recompute; in every state no height has more pre-votes or      *)
(* more pre-commits than there are delegates recorded in state.            *)
(***************************************************************************)
C35_OneVotePerDelegateAndHeight ==
    [][/\ \A j \in DOMAIN preVotes' :
              preVotes'[j] <= Cardinality(DOMAIN state')
       /\ \A j \in DOMAIN preCommits' :
              preCommits'[j] <= Cardinality(DOMAIN state')
       /\ AddedCall' =>
            LET h == headers'[Len(headers')]
                before == IF h.delegatePublicKey \in DOMAIN state
                          THEN state[h.delegatePublicKey]
                          ELSE NewDelegateState
            IN  /\ \A j \in DOMAIN preVotes' :
                       preVotes'[j] > GetOr0(preVotes, j)
                           => /\ preVotes'[j] = GetOr0(preVotes, j) + 1
                              /\ j > before.maxPreVoteHeight
                /\ \A j \in DOMAIN preCommits' :
                       preCommits'[j] > GetOr0(preCommits, j)
                           => /\ preCommits'[j] = GetOr0(preCommits, j) + 1
                              /\ j > before.maxPreCommitHeight]_vars

\* every recorded delegate has pre-voted and pre-committed one height, and
\* more headers are stored than there are delegates
C35_Witness ==
    /\ Cardinality(DOMAIN state) = NumKeys
    /\ Len(headers) > NumKeys
    /\ \E j \in DOMAIN preCommits :
           /\ preCommits[j] = Cardinality(DOMAIN state)
           /\ GetOr0(preVotes, j) = Cardinality(DOMAIN state)

(***************************************************************************)
(* C36: a height that has pre-commits has pre-votes that reached           *)
(* preVoteThreshold; whenever addBlockHeader or removeBlockHeaders changes *)
(* finalizedHeight, the new value is at most chainMaxHeightPrevoted and    *)
(* below the height of the last stored header.                             *)
(***************************************************************************)
C36_FinalizedBelowPrevotedAndTip ==
    [][/\ \A j \in (DOMAIN preCommits') \cap (DOMAIN preVotes') :
              preCommits'[j] >= 1 => preVotes'[j] >= preVoteThreshold
       /\ ((AddCall' \/ RemoveCall') /\ finalizedHeight' # finalizedHeight)
              => /\ finalizedHeight' <= chainMaxHeightPrevoted'
                 /\ finalizedHeight' < maxHeight(headers')]_vars

\* a call has finalized a height with two active delegates while a higher
\* height is pre-voted
C36_Witness ==
    /\ AddCall \/ RemoveCall
    /\ emitted = <<finalizedHeight>>
    /\ activeDelegates = 2
    /\ finalizedHeight < chainMaxHeightPrevoted
    /\ GetOr0(preCommits, finalizedHeight) >= preCommitThreshold

(***************************************************************************)
(* C37: the walk of _getMinValidHeightToPreCommit ends for every header    *)
(* and every list of headers; the needle is lower after every iteration;   *)
(* the value returned is 0 or a height between                             *)
(* max(minHeight, height - processingThreshold) and the header's height.   *)
(***************************************************************************)
WalkCall == lastCall.op = "getMinValidHeightToPreCommit"

WalkReturned == WalkCall /\ lastCall.result # -1

WalkResultInRange ==
    LET h == lastCall.header
    IN  \/ lastCall.result = 0
        \/ lastCall.result \in
               Max2(minHeight(headers), h.height - processingThreshold)..h.height

WalkAsCalled ==
    /\ lastCall.header.maxHeightPreviouslyForged < lastCall.header.height
    /\ minHeight(headers) <= lastCall.header.height

C37_WitnessMissing ==
    /\ WalkReturned
    /\ WalkAsCalled
    /\ lastCall.result = 0
    /\ Len(headers) > 0

TypeOK ==
    /\ activeDelegates \in 1..MaxActiveDelegates
    /\ Len(headers) <= maxHeaders

====
